---- MODULE Spec2Model ----
(***************************************************************************)
(* Stencil convolution of vexcl (vexcl/stencil.hpp): construction of a     *)
(* stencil, the host-mediated halo exchange, the generated convolution     *)
(* kernels (generic slow_conv, tiled fast_conv) and the dispatch of         *)
(* convolve(x, y, alpha, beta) over the command queues of the devices.     *)
(*                                                                         *)
(* Buffers are sequences; the code's 0-based index i is position i + 1.    *)
(***************************************************************************)
EXTENDS Integers, Sequences, FiniteSets, TLC

(***************************************************************************)
(* Bounds of the model.                                                    *)
(***************************************************************************)
MaxD == 3          \* devices (command queues) of a context list
MaxN == 5          \* elements of the vectors x and y
MaxWidth == 3      \* coefficients of a stencil
MaxCalls == 2      \* convolve calls on one stencil instance
MaxStencils == 3   \* stencil constructions in one process (SpecCache)
NumGroups == 2     \* work groups of a kernel launch

(***************************************************************************)
(* Program constant: the widest stencil that still gets the tiled kernel.  *)
(***************************************************************************)
TileMaxWidth == 64

\* The content of memory nobody has written (a fresh device buffer, a shared
\* array the asynchronous group copy has not reached yet) and of a read
\* outside a buffer: it stands for every value the device may hold there,
\* and whatever is computed from it is indeterminate as well.
Uninit == 0 - 1000000

\* a * b and a + b of the kernels, over values that may be indeterminate.
Mul(a, b) == IF a = Uninit \/ b = Uninit THEN Uninit ELSE a * b
Add(a, b) == IF a = Uninit \/ b = Uninit THEN Uninit ELSE a + b

Min(a, b) == IF a < b THEN a ELSE b
Max(a, b) == IF a > b THEN a ELSE b

\* buf[i] of the code.
At(buf, i) == IF i >= 0 /\ i < Len(buf) THEN buf[i + 1] ELSE Uninit

\* buf[from .. from + cnt) of the code.
Slice(buf, from, cnt) == [k \in 1..cnt |-> buf[from + k]]

\* std::fill(&buf[from], &buf[to], v)
Fill(buf, from, to, v) ==
    [k \in 1..Len(buf) |-> IF k - 1 >= from /\ k - 1 < to THEN v ELSE buf[k]]

\* buf with data copied to buf[at .. at + Len(data))
Splice(buf, at, data) ==
    [k \in 1..Len(buf) |->
        IF k - 1 >= at /\ k - 1 < at + Len(data) THEN data[k - at] ELSE buf[k]]

(***************************************************************************)
(* The generated device function read_x.                                   *)
(***************************************************************************)
\* read_x clamping to the local edge where the halo has no element.
read_x_clamping(g_id, n, has_left, has_right, lh, rh, xloc, xrem) ==
    IF g_id >= 0 /\ g_id < n
    THEN At(xloc, g_id)
    ELSE IF g_id < 0
         THEN IF has_left /\ lh + g_id >= 0
              THEN At(xrem, lh + g_id)
              ELSE At(xloc, 0)
         ELSE IF has_right /\ g_id < n + rh
              THEN At(xrem, lh + g_id - n)
              ELSE At(xloc, n - 1)

read_x(g_id, n, has_left, has_right, lh, rh, xloc, xrem) ==
    IF g_id >= 0 /\ g_id < n
    THEN At(xloc, g_id)
    ELSE IF g_id < 0
         THEN IF has_left
              THEN (IF lh + g_id >= 0 THEN At(xrem, lh + g_id) ELSE 0)
              ELSE At(xloc, 0)
         ELSE IF has_right
              THEN (IF g_id < n + rh THEN At(xrem, lh + g_id - n) ELSE 0)
              ELSE At(xloc, n - 1)

\* Store adding to y[idx] when alpha is zero.
StoreAddsToY(yold, alpha, beta, sum) ==
    IF alpha # 0 THEN Add(Mul(alpha, yold), Mul(beta, sum))
    ELSE Add(yold, Mul(beta, sum))

\* y[idx] = alpha * y[idx] + beta * sum, or beta * sum when alpha is zero.
Store(yold, alpha, beta, sum) ==
    IF alpha # 0 THEN Add(Mul(alpha, yold), Mul(beta, sum)) ELSE Mul(beta, sum)

(***************************************************************************)
(* slow_conv: one output per grid-stride index.                            *)
(***************************************************************************)
\* The sum of s[lhalo + j] * read_x(idx + j, ...) over j = lo .. hi. The
\* terms are added pairwise, which gives the sum of the loop (integer
\* addition is associative) and keeps the evaluation shallow for the
\* stencils wider than TileMaxWidth.
RECURSIVE SlowSum(_, _, _, _, _, _, _, _, _, _, _)
SlowSum(lo, hi, idx, n, has_left, has_right, lh, rh, coef, xloc, xrem) ==
    IF lo > hi THEN 0
    ELSE IF lo = hi
    THEN Mul(At(coef, lh + lo),
             read_x(idx + lo, n, has_left, has_right, lh, rh, xloc, xrem))
    ELSE LET mid == (lo + hi) \div 2
         IN  Add(SlowSum(lo, mid, idx, n, has_left, has_right, lh, rh,
                         coef, xloc, xrem),
                 SlowSum(mid + 1, hi, idx, n, has_left, has_right, lh, rh,
                         coef, xloc, xrem))

\* The indices a grid of gs work items visits: idx = g, g + gs, ... below n.
GridStride(n, gs) ==
    {idx \in 0..(n - 1) : \E g \in 0..(gs - 1) : \E k \in 0..n : idx = g + k * gs}

SlowKernel(n, has_left, has_right, lh, rh, coef, xloc, xrem, yloc, alpha, beta, gs) ==
    [k \in 1..Len(yloc) |->
        IF (k - 1) \in GridStride(n, gs)
        THEN Store(yloc[k], alpha, beta,
                   SlowSum(0 - lh, rh, k - 1, n, has_left, has_right, lh, rh,
                           coef, xloc, xrem))
        ELSE yloc[k]]

(***************************************************************************)
(* fast_conv: the work group of block_size items stages the tile           *)
(* X[0 .. block_size + lhalo + rhalo) and sums from the shared arrays.     *)
(***************************************************************************)
\* X after the staging loop of the group whose first item has global id base.
Tile(base, bs, n, has_left, has_right, lh, rh, xloc, xrem) ==
    [i \in 0..(bs + lh + rh - 1) |->
        read_x(base - lh + i, n, has_left, has_right, lh, rh, xloc, xrem)]

\* The sum of S[lhalo + j] * X[lhalo + l_id + j] over j = lo .. hi, the terms
\* added pairwise as in SlowSum.
RECURSIVE FastSum(_, _, _, _, _, _)
FastSum(lo, hi, l_id, lh, S, X) ==
    IF lo > hi THEN 0
    ELSE IF lo = hi
    THEN Mul(At(S, lh + lo), X[lh + l_id + lo])
    ELSE LET mid == (lo + hi) \div 2
         IN  Add(FastSum(lo, mid, l_id, lh, S, X),
                 FastSum(mid + 1, hi, l_id, lh, S, X))

\* S is the shared coefficient array as the work items find it.
FastKernel(n, has_left, has_right, lh, rh, S, xloc, xrem, yloc, alpha, beta, bs, gs) ==
    [k \in 1..Len(yloc) |->
        LET g_id == k - 1
            l_id == (g_id % gs) % bs
        IN  IF g_id < n /\ g_id \in GridStride(n, gs)
            THEN Store(yloc[k], alpha, beta,
                       FastSum(0 - lh, rh, l_id, lh, S,
                               Tile(g_id - l_id, bs, n, has_left, has_right,
                                    lh, rh, xloc, xrem)))
            ELSE yloc[k]]

\* async_work_group_copy(S, s, lhalo + rhalo + 1, 0) is never waited for
\* (no wait_group_events): when the work items read S, the first c
\* coefficients have arrived and the rest of S is still unwritten.
StagedViews(coef) ==
    {[k \in 1..Len(coef) |-> IF k <= c THEN coef[k] ELSE Uninit] :
        c \in 0..Len(coef)}

(***************************************************************************)
(* StencilOperator: the tiled kernel with the user's function stencil_oper *)
(* in place of the weighted sum.                                           *)
(***************************************************************************)
Pow3(a) == Mul(a, Mul(a, a))

\* Impl::body() of the operator type impl; X points at X[c] of the tile.
\* pow3 is the documented operator, for any halo:
\* return X[0] + pow(X[-lhalo] + X[rhalo], 3); diff is a second operator
\* type of the program: return X[rhalo] - X[-lhalo].
stencil_oper(impl, X, c, lh, rh) ==
    IF impl = "pow3"
    THEN Add(X[c], Pow3(Add(X[c - lh], X[c + rh])))
    ELSE Add(X[c + rh], Mul(0 - 1, X[c - lh]))

OperKernel(impl, n, has_left, has_right, lh, rh, xloc, xrem, yloc, alpha, beta, bs, gs) ==
    [k \in 1..Len(yloc) |->
        LET g_id == k - 1
            l_id == (g_id % gs) % bs
        IN  IF g_id < n /\ g_id \in GridStride(n, gs)
            THEN Store(yloc[k], alpha, beta,
                       stencil_oper(impl,
                                    Tile(g_id - l_id, bs, n, has_left, has_right,
                                         lh, rh, xloc, xrem),
                                    lh + l_id, lh, rh))
            ELSE yloc[k]]

(***************************************************************************)
(* The platform: a device has a context and a class; a queue list is what  *)
(* the caller hands to the constructor and to the vectors.                *)
(***************************************************************************)
Dev(c, cpu) == [ctx |-> c, cpu |-> cpu]

\* Devices alternate between a GPU of context 1 and a CPU of context 2;
\* p says which comes first.
Layout(D, p) == [i \in 1..D |-> Dev(1 + ((i + p) % 2), (i + p) % 2 = 1)]

QueueSet == {<< >>} \cup {Layout(D, p) : D \in 1..MaxD, p \in {0, 1}}

is_cpu(dev) == dev.cpu

\* backend::kernel::workgroup_size(): one work item per group on a CPU.
WorkgroupSize(dev) == IF dev.cpu THEN 1 ELSE 2

CoefA(k) == IF k % 2 = 0 THEN 0 - 2 ELSE 1
CoefB(k) == k + 1

\* No coefficients, the second difference <<1, -2, 1>>, and an asymmetric
\* stencil of every width.
StencilSet ==
    {<< >>, [k \in 1..3 |-> CoefA(k)]}
        \cup {[k \in 1..w |-> CoefB(k)] : w \in 1..MaxWidth}

VARIABLES
    status,     \* outcome of the constructor: none, ok, assert, bad_alloc
    queue,      \* stencil_base::queue
    s,          \* stencil_base::s, the coefficient buffer of each device
    lhalo,      \* stencil_base::lhalo
    rhalo,      \* stencil_base::rhalo
    hbuf,       \* stencil_base::hbuf, the host halo buffer
    dbuf,       \* stencil_base::dbuf, the halo buffer of each device
    hfill,      \* for each element of hbuf, the call that wrote it last (0: none)
    dfill,      \* for each element of dbuf[d], the call whose upload wrote it
                \* from a host element written in that call (0: none, -1: from
                \* a host element written in no call or in another)
    conv,       \* stencil::conv, the kernel of each device
    loc_s,      \* stencil::loc_s
    loc_x,      \* stencil::loc_x
    cache,      \* the static kernel_cache of slow_conv and of fast_conv
    compiled,   \* every kernel compilation so far, in order
    nstencils,  \* constructions so far
    x,          \* the input vector
    part,       \* its partitioning: part[d + 1] = part_start(d)
    y,          \* the output vector
    alpha,
    beta,
    pc,         \* where the coordinating thread is in convolve
    di,         \* its loop variable d
    cq,         \* the commands enqueued on each device and not yet executed
    calls,      \* convolve calls so far
    log,        \* what the calls have issued
    ylog,       \* ylog[c + 1]: y as the kernels of call c leave it (ylog[1]: before)
    kin,        \* the arguments of a kernel launched on its own (SpecKernel)
    kout,       \* what that launch left in y
    args,       \* width and center as the last constructor got them
    expr,       \* the vector expression being assigned to y
    oper,       \* the type of the StencilOperator at hand, none for a stencil
    ocache,     \* the static kernel_cache of StencilOperator::convolve, per type
    ocompiled,  \* every compilation of an operator kernel so far, in order
    lmem,       \* the static lmem of StencilOperator::convolve, per type
    kern,       \* the kernel whose work items are followed (SpecGroup)
    grp,        \* the work group followed: get_group_id(0)
    wi,         \* wi[l_id]: where the work item is, its g_id, pos (or idx) and i
    X_tile,     \* the shared array X of the group
    S_shared,   \* the shared array S of the group
    ncopied,    \* how far async_work_group_copy has got; -1 before it is issued
    yw,         \* the partition y as the work items write it
    touched,    \* every access of the work items so far: <<buffer, index>>
    writes      \* every write to X so far: <<pos, slot, l_id>>

stencilVars ==
    <<status, queue, s, lhalo, rhalo, hbuf, dbuf, hfill, dfill, conv, loc_s, loc_x>>
cacheVars == <<cache, compiled, nstencils>>
callVars == <<x, part, y, alpha, beta, pc, di, cq, calls, log, ylog>>
kernelVars == <<kin, kout>>
operVars == <<oper, ocache, ocompiled, lmem>>
wgVars == <<kern, grp, wi, X_tile, S_shared, ncopied, yw, touched, writes>>
objVars == <<args, expr, operVars, wgVars>>
vars == <<stencilVars, cacheVars, callVars, kernelVars, objVars>>

\* The user-defined operator types of the program: each is a
\* StencilOperator<T, 3, 1, Impl> with a body of its own.
OperTypes == {"pow3", "diff"}
OperWidth == 3
OperCenter == 1

\* No expression is being assigned.
NoExpr == [op |-> "none"]

NumDev == Len(queue)

\* No kernel has been launched on its own.
NoLaunch == [n |-> 0]
NoResult == [kernel |-> "none"]

InitStencil ==
    /\ status = "none"
    /\ queue = << >>
    /\ s = << >>
    /\ lhalo = 0
    /\ rhalo = 0
    /\ hbuf = << >>
    /\ dbuf = << >>
    /\ hfill = << >>
    /\ dfill = << >>
    /\ conv = << >>
    /\ loc_s = << >>
    /\ loc_x = << >>
    /\ cache = [name \in {"slow_conv", "fast_conv"} |-> {}]
    /\ compiled = << >>
    /\ nstencils = 0
    /\ x = << >>
    /\ part = <<0>>
    /\ y = << >>
    /\ alpha = 0
    /\ beta = 0
    /\ pc = "idle"
    /\ di = 0
    /\ cq = << >>
    /\ calls = 0
    /\ log = {}
    /\ ylog = << >>
    /\ args = [width |-> 0, center |-> 0]
    /\ expr = NoExpr
    /\ oper = "none"
    /\ ocache = [t \in OperTypes |-> {}]
    /\ ocompiled = << >>
    /\ lmem = [t \in OperTypes |-> {}]

\* No work group is followed.
NoGroup ==
    /\ kern = "none"
    /\ grp = 0
    /\ wi = << >>
    /\ X_tile = << >>
    /\ S_shared = << >>
    /\ ncopied = 0 - 1
    /\ yw = << >>
    /\ touched = {}
    /\ writes = {}

Init ==
    /\ InitStencil
    /\ NoGroup
    /\ kin = NoLaunch
    /\ kout = NoResult

(***************************************************************************)
(* The kernel caches: std::map<cl_context, kernel>.                        *)
(***************************************************************************)
\* A lookup that never finds an entry.
CacheFindMisses(c, ctx) == {}

\* cache.find(context()): the entries under that key.
CacheFind(c, ctx) == {p \in c : p[1] = ctx}

\* An insertion that drops the entries of the other contexts.
CacheInsertAlone(c, ctx, krn) == {<<ctx, krn>>}

\* cache.insert(std::make_pair(context(), krn)): a present key is kept.
CacheInsert(c, ctx, krn) ==
    IF \E p \in c : p[1] = ctx THEN c ELSE c \cup {<<ctx, krn>>}

\* The entry insert returns: the one under the key after the insertion.
Inserted(c, ctx) == CHOOSE p \in c : p[1] = ctx

\* slow_conv(queue) and fast_conv(queue): st is [cache, compiled]; the
\* result adds the returned entry.
GetKernel(name, dev, st) ==
    LET found == CacheFind(st.cache[name], dev.ctx)
    IN  IF found = {}
        THEN LET krn == [name |-> name, ctx |-> dev.ctx,
                         wgs |-> WorkgroupSize(dev),
                         serial |-> Len(st.compiled) + 1]
                 c2  == CacheInsert(st.cache[name], dev.ctx, krn)
             IN  [cache |-> [st.cache EXCEPT ![name] = c2],
                  compiled |-> Append(st.compiled, <<name, dev.ctx>>),
                  kernel |-> Inserted(c2, dev.ctx)[2]]
        ELSE [cache |-> st.cache,
              compiled |-> st.compiled,
              kernel |-> (CHOOSE p \in found : TRUE)[2]]

slow_conv(dev, st) == GetKernel("slow_conv", dev, st)
fast_conv(dev, st) == GetKernel("fast_conv", dev, st)

\* The generic kernel from width 64 on.
UseSlowFrom64(dev, width) == is_cpu(dev) \/ width >= TileMaxWidth

\* The strategy of a device.
UseSlow(dev, width) == is_cpu(dev) \/ width > TileMaxWidth

\* A tile allocated without the right halo.
TileElementsWithoutRight(wgs, lh, rh) == wgs + lh

\* The elements of the local memory for X:
\* vex::Local(sizeof(T) * (workgroup_size() + lhalo + rhalo)), and for the
\* operator kernel workgroup_size() + width - 1.
TileElements(wgs, lh, rh) == wgs + lh + rh

\* stencil<T>::init(width), devices d .. D - 1 (d is 0-based); acc carries
\* the caches and the members filled so far.
RECURSIVE init(_, _, _, _, _)
init(d, q, width, lh, acc) ==
    IF d >= Len(q) THEN acc
    ELSE LET dev == q[d + 1]
             got == IF UseSlow(dev, width)
                    THEN slow_conv(dev, acc)
                    ELSE fast_conv(dev, acc)
             ls  == IF UseSlow(dev, width) THEN <<"bytes", 1>>
                    ELSE <<"elements", width>>
             lx  == IF UseSlow(dev, width) THEN <<"bytes", 1>>
                    ELSE <<"elements",
                           TileElements(got.kernel.wgs, lh, width - lh - 1)>>
         IN  init(d + 1, q, width, lh,
                  [cache |-> got.cache, compiled |-> got.compiled,
                   conv |-> Append(acc.conv, got.kernel),
                   loc_s |-> Append(acc.loc_s, ls),
                   loc_x |-> Append(acc.loc_x, lx)])

(***************************************************************************)
(* stencil<T>::stencil(queue, st, center), with the base constructor.      *)
(* width and center are unsigned: width - center - 1 wraps around and      *)
(* becomes a negative int rhalo when center >= width, and width - 1 wraps  *)
(* to 2^32 - 1 when width is 0.                                            *)
(***************************************************************************)
PreconditionsHold(q, width, center) ==
    /\ Len(q) > 0                 \* assert(queue.size())
    /\ center >= 0                \* assert(lhalo >= 0)
    /\ width - center - 1 >= 0    \* assert(rhalo >= 0)
    /\ width > 0                  \* assert(width)
    /\ center < width             \* assert(center < width)

\* hbuf(queue.size() * (width - 1)) is evaluated before the assertions:
\* with width = 0 and a device it asks for queue.size() * (2^32 - 1)
\* elements.
HbufIsHuge(q, width) == width = 0 /\ Len(q) > 0

\* The right halo derived without taking the center point off.
HaloOfKeepsCenter(width, center) ==
    [lhalo |-> center, rhalo |-> width - center]

\* lhalo(center), rhalo(width - center - 1) of the member initialisers.
HaloOf(width, center) ==
    [lhalo |-> center, rhalo |-> width - center - 1]

ConstructOk(q, coef, center) ==
    LET width == Len(coef)
        D == Len(q)
        made == init(0, q, width, center,
                     [cache |-> cache, compiled |-> compiled,
                      conv |-> << >>, loc_s |-> << >>, loc_x |-> << >>])
    IN  /\ status' = "ok"
        /\ queue' = q
        /\ s' = [d \in 1..D |-> coef]
        /\ lhalo' = HaloOf(width, center).lhalo
        /\ rhalo' = HaloOf(width, center).rhalo
        /\ hbuf' = [k \in 1..(D * (width - 1)) |-> 0]
        /\ dbuf' = [d \in 1..D |-> [k \in 1..width |-> Uninit]]
        /\ hfill' = [k \in 1..(D * (width - 1)) |-> 0]
        /\ dfill' = [d \in 1..D |-> [k \in 1..width |-> 0]]
        /\ conv' = made.conv
        /\ loc_s' = made.loc_s
        /\ loc_x' = made.loc_x
        /\ cache' = made.cache
        /\ compiled' = made.compiled
        /\ nstencils' = nstencils + 1
        /\ x' = << >>
        /\ part' = [k \in 1..(D + 1) |-> 0]
        /\ y' = << >>
        /\ alpha' = 0
        /\ beta' = 0
        /\ pc' = "idle"
        /\ di' = 0
        /\ cq' = [d \in 1..D |-> << >>]
        /\ calls' = 0
        /\ log' = {}
        /\ ylog' = << >>
        /\ args' = [width |-> width, center |-> center]
        /\ oper' = "none"
        /\ UNCHANGED <<kernelVars, expr, ocache, ocompiled, lmem, wgVars>>

ConstructFails(q, coef, center, how) ==
    /\ status' = how
    /\ queue' = q
    /\ s' = coef
    /\ lhalo' = HaloOf(Len(coef), center).lhalo
    /\ rhalo' = HaloOf(Len(coef), center).rhalo
    /\ args' = [width |-> Len(coef), center |-> center]
    /\ oper' = "none"
    /\ UNCHANGED <<hbuf, dbuf, hfill, dfill, conv, loc_s, loc_x, cacheVars,
                   callVars, kernelVars,
                   expr, ocache, ocompiled, lmem, wgVars>>

ConstructBody(q, coef, center) ==
    \/ /\ HbufIsHuge(q, Len(coef))
       /\ ConstructFails(q, coef, center, "bad_alloc")
    \/ /\ ~PreconditionsHold(q, Len(coef), center)
       /\ ConstructFails(q, coef, center, "assert")
    \/ /\ PreconditionsHold(q, Len(coef), center)
       /\ ConstructOk(q, coef, center)

Construct ==
    /\ status = "none"
    /\ \E q \in QueueSet, coef \in StencilSet, center \in 0..MaxWidth :
          ConstructBody(q, coef, center)

(***************************************************************************)
(* The vectors: x and y are partitioned alike over the queue list.         *)
(***************************************************************************)
part_start(d) == part[d + 1]
part_size(d) == part[d + 2] - part[d + 1]

\* The input vectors: x = [1, 4, 9, ...], whose elements are pairwise
\* different and not zero.
Squares(N) == [i \in 1..N |-> i * i]
XSet(N) == {Squares(N)}

\* The vector of the documented scenario, on one device.
ExampleX == <<0, 1, 4, 9, 16>>

Y0(N) == [i \in 1..N |-> i]

\* Ordered contiguous partitions of 0..N-1 over D devices, empty ones included.
Partitions(N, D) ==
    {p \in [1..(D + 1) -> 0..N] :
        /\ p[1] = 0
        /\ p[D + 1] = N
        /\ \A k \in 1..D : p[k] <= p[k + 1]}

\* <<alpha, beta>> of a call.
ABSet == {<<0, 1>>, <<1, 2>>, <<2, 0 - 1>>}

InputsUpTo(maxN) ==
    {[x |-> xv, part |-> p, alpha |-> ab[1], beta |-> ab[2]] :
        xv \in UNION {XSet(N) : N \in 1..maxN},
        p \in UNION {Partitions(N, NumDev) : N \in 1..maxN},
        ab \in ABSet}

Inputs ==
    InputsUpTo(MaxN)
        \cup {[x |-> ExampleX, part |-> <<0, Len(ExampleX)>>,
                alpha |-> ab[1], beta |-> ab[2]] : ab \in ABSet}

\* vector::read_data(begin, size, &hbuf[to], CL_FALSE): one read on the
\* queue of every device that owns a piece of [begin, begin + size).
read_data(q, begin, size, to) ==
    [e \in 1..Len(q) |->
        LET start == Max(begin, part[e])
            stop  == Min(begin + size, part[e + 1])
        IN  IF stop > start
            THEN Append(q[e], [op |-> "read", from |-> start,
                               cnt |-> stop - start,
                               to |-> to + (start - begin),
                               call |-> calls])
            ELSE q[e]]

(***************************************************************************)
(* convolve(x, y, alpha, beta): the coordinating thread.                   *)
(***************************************************************************)
\* exchange_halos returning at once for one queue only.
ExchangeIsNoopForOneQueue == NumDev <= 1

\* exchange_halos returns at once for one queue or a stencil without halo.
ExchangeIsNoop == NumDev <= 1 \/ lhalo + rhalo <= 0

\* The entry of convolve(x, y, alpha, beta); e is the expression the call
\* is made for.
BeginApply(xv, p, yv, a, b, e) ==
    /\ x' = xv
    /\ part' = p
    /\ y' = yv
    /\ alpha' = a
    /\ beta' = b
    /\ calls' = calls + 1
    /\ ylog' = IF calls = 0 THEN <<yv, yv>> ELSE Append(ylog, ylog[Len(ylog)])
    /\ pc' = IF ExchangeIsNoop THEN "launch" ELSE "read"
    /\ di' = 0
    /\ expr' = e
    /\ UNCHANGED <<kernelVars, args, operVars, wgVars, stencilVars, cacheVars,
                   cq, log>>

\* convolve called by the program itself.
BeginConvolve(xv, p, yv, a, b) == BeginApply(xv, p, yv, a, b, expr)

ConvolveIn(inputs) ==
    /\ status = "ok"
    /\ pc = "idle"
    /\ calls = 0
    /\ \E inp \in inputs :
          /\ Len(inp.part) = NumDev + 1
          /\ Len(inp.x) = inp.part[NumDev + 1]
          /\ BeginConvolve(inp.x, inp.part, Y0(Len(inp.x)), inp.alpha, inp.beta)

Convolve == ConvolveIn(Inputs)

\* The same call again: x, alpha and beta unchanged, y passed back in.
ConvolveAgain ==
    /\ status = "ok"
    /\ pc = "idle"
    /\ calls >= 1
    /\ calls < MaxCalls
    /\ BeginConvolve(x, part, y, alpha, beta)

NextPc(after) == IF di + 1 < NumDev THEN pc ELSE after

\* Left halo of device d: [begin, end) of x, size elements.
LeftEnd(d) == part_start(d)
LeftBegin(d) == IF LeftEnd(d) >= lhalo THEN LeftEnd(d) - lhalo ELSE 0
LeftSize(d) == LeftEnd(d) - LeftBegin(d)

\* Right halo of device d.
RightBegin(d) == part_start(d + 1)
RightEnd(d) == Min(RightBegin(d) + rhalo, Len(x))
RightSize(d) == RightEnd(d) - RightBegin(d)

\* A left halo wanted by the first device as well.
WantsLeftAlways(d) == lhalo > 0

WantsLeft(d) == d > 0 /\ lhalo > 0
\* The right halo exchanged for the devices between two others only.
WantsRightOnlyInside(d) == d + 1 < NumDev /\ d > 0 /\ rhalo > 0

WantsRight(d) == d + 1 < NumDev /\ rhalo > 0

\* No partition is ever passed over.
NeverSkipped(d) == FALSE

\* if (!x.part_size(d)) continue;
IsSkipped(d) == part_size(d) = 0

\* exchange_halos, first loop, iteration d = di.
ReadStep ==
    /\ pc = "read"
    /\ LET d == di
           w == lhalo + rhalo
           q1 == IF WantsLeft(d)
                 THEN read_data(cq, LeftBegin(d), LeftSize(d),
                                d * w + lhalo - LeftSize(d))
                 ELSE cq
           q2 == IF WantsRight(d)
                 THEN read_data(q1, RightBegin(d), RightSize(d), d * w + lhalo)
                 ELSE q1
       IN  IF IsSkipped(d)
           THEN UNCHANGED <<cq, log>>
           ELSE /\ cq' = q2
                /\ log' = IF WantsLeft(d) \/ WantsRight(d)
                          THEN log \cup {<<calls, "read", d>>}
                          ELSE log
    /\ di' = IF di + 1 < NumDev THEN di + 1 ELSE 0
    /\ pc' = NextPc("finish1")
    /\ UNCHANGED <<kernelVars, objVars, stencilVars, cacheVars, x, part, y, alpha, beta, calls, ylog>>

\* for (d...) queue[d].finish(): returns when every queue has drained.
AllDrained == \A e \in 1..NumDev : cq[e] = << >>

\* Finish1 going on to the fills without waiting for the queues.
Finish1WithoutWait ==
    /\ pc = "finish1"
    /\ pc' = "write"
    /\ di' = 0
    /\ log' = log \cup {<<calls, "finish", 1>>}
    /\ UNCHANGED <<kernelVars, objVars, stencilVars, cacheVars, x, part, y, alpha, beta, cq, calls, ylog>>

Finish1 ==
    /\ pc = "finish1"
    /\ AllDrained
    /\ pc' = "write"
    /\ di' = 0
    /\ log' = log \cup {<<calls, "finish", 1>>}
    /\ UNCHANGED <<kernelVars, objVars, stencilVars, cacheVars, x, part, y, alpha, beta, cq, calls, ylog>>

\* LeftFilled replicating the first slot of the halo instead of the nearest
\* element that was read.
LeftFilledFromFirstSlot(h, d) ==
    LET w == lhalo + rhalo
    IN  IF ~WantsLeft(d) THEN h
        ELSE Fill(h, d * w, d * w + lhalo - LeftSize(d), At(h, d * w))

\* The host buffer after the two fills of iteration d.
LeftFilled(h, d) ==
    LET w == lhalo + rhalo
    IN  IF ~WantsLeft(d) THEN h
        ELSE IF LeftSize(d) # 0
             THEN Fill(h, d * w, d * w + lhalo - LeftSize(d),
                       At(h, d * w + lhalo - LeftSize(d)))
             ELSE Fill(h, d * w, d * w + lhalo - LeftSize(d), At(x, 0))

\* RightFilled replicating the last slot of the halo instead of the nearest
\* element that was read.
RightFilledFromLastSlot(h, d) ==
    LET w == lhalo + rhalo
    IN  IF ~WantsRight(d) THEN h
        ELSE Fill(h, d * w + lhalo + RightSize(d), (d + 1) * w,
                  At(h, (d + 1) * w - 1))

\* RightFilled completing a short read with zeros.
RightFilledWithZero(h, d) ==
    LET w == lhalo + rhalo
    IN  IF ~WantsRight(d) THEN h
        ELSE Fill(h, d * w + lhalo + RightSize(d), (d + 1) * w, 0)

RightFilled(h, d) ==
    LET w == lhalo + rhalo
    IN  IF ~WantsRight(d) THEN h
        ELSE IF RightSize(d) # 0
             THEN Fill(h, d * w + lhalo + RightSize(d), (d + 1) * w,
                       At(h, d * w + lhalo + RightSize(d) - 1))
             ELSE Fill(h, d * w + lhalo + RightSize(d), (d + 1) * w,
                       At(x, Len(x) - 1))

\* What the two fills of iteration d write, in terms of the call that
\* produced each element: a slot filled from a slot that was read gets what
\* that slot has, a slot filled with x[0] or x[x.size() - 1] is of this call.
FilledBy(h, d) ==
    LET w == lhalo + rhalo
        lsrc == IF LeftSize(d) # 0 THEN At(h, d * w + lhalo - LeftSize(d))
                ELSE calls
        h1 == IF ~WantsLeft(d) THEN h
              ELSE Fill(h, d * w, d * w + lhalo - LeftSize(d), lsrc)
        rsrc == IF RightSize(d) # 0 THEN At(h1, d * w + lhalo + RightSize(d) - 1)
                ELSE calls
    IN  IF ~WantsRight(d) THEN h1
        ELSE Fill(h1, d * w + lhalo + RightSize(d), (d + 1) * w, rsrc)

\* The device that owns element i of x.
Owner(i) == CHOOSE e \in 0..(NumDev - 1) : part_start(e) <= i /\ i < part_start(e + 1)

\* x[0] and x[x.size() - 1] are blocking reads on the owner's queue.
ElementReadsReturn(d) ==
    /\ (WantsLeft(d) /\ LeftSize(d) = 0) => cq[Owner(0) + 1] = << >>
    /\ (WantsRight(d) /\ RightSize(d) = 0) => cq[Owner(Len(x) - 1) + 1] = << >>

\* exchange_halos, second loop, iteration d = di.
WriteStep ==
    /\ pc = "write"
    /\ LET d == di
           w == lhalo + rhalo
       IN  IF IsSkipped(d)
           THEN UNCHANGED <<hbuf, hfill, cq, log>>
           ELSE /\ ElementReadsReturn(d)
                /\ hbuf' = RightFilled(LeftFilled(hbuf, d), d)
                /\ hfill' = FilledBy(hfill, d)
                /\ IF WantsLeft(d) \/ WantsRight(d)
                   THEN /\ cq' = [cq EXCEPT ![d + 1] =
                                     Append(@, [op |-> "write", from |-> d * w,
                                                cnt |-> w, call |-> calls])]
                        /\ log' = log \cup {<<calls, "upload", d>>}
                   ELSE UNCHANGED <<cq, log>>
    /\ di' = IF di + 1 < NumDev THEN di + 1 ELSE 0
    /\ pc' = NextPc("finish2")
    /\ UNCHANGED <<status, queue, s, lhalo, rhalo, dbuf, dfill, conv, loc_s, loc_x,
                   cacheVars, kernelVars, objVars, x, part, y, alpha, beta, calls, ylog>>

\* Finish2 going on to the launches without waiting for the queues.
Finish2WithoutWait ==
    /\ pc = "finish2"
    /\ pc' = "launch"
    /\ di' = 0
    /\ log' = log \cup {<<calls, "finish", 2>>}
    /\ UNCHANGED <<kernelVars, objVars, stencilVars, cacheVars, x, part, y, alpha, beta, cq, calls, ylog>>

Finish2 ==
    /\ pc = "finish2"
    /\ AllDrained
    /\ pc' = "launch"
    /\ di' = 0
    /\ log' = log \cup {<<calls, "finish", 2>>}
    /\ UNCHANGED <<kernelVars, objVars, stencilVars, cacheVars, x, part, y, alpha, beta, cq, calls, ylog>>

\* The launch geometry of a kernel: NumGroups groups of workgroup_size items.
GridSize(krn) == krn.wgs * NumGroups

\* convolve, the loop over the devices, iteration d = di.
LaunchStep ==
    /\ pc = "launch"
    /\ oper = "none"
    /\ LET d == di
           psize == part_size(d)
           krn == conv[d + 1]
       IN  IF psize # 0
           THEN /\ cq' = [cq EXCEPT ![d + 1] =
                             Append(@, [op |-> "kernel", name |-> krn.name,
                                        n |-> psize,
                                        has_left |-> (d > 0),
                                        has_right |-> (d + 1 < NumDev),
                                        lhalo |-> lhalo, rhalo |-> rhalo,
                                        alpha |-> alpha, beta |-> beta,
                                        bs |-> krn.wgs, gs |-> GridSize(krn),
                                        call |-> calls])]
                /\ log' = log \cup {<<calls, "push_arg", d>>, <<calls, "launch", d>>}
           ELSE UNCHANGED <<cq, log>>
    /\ di' = IF di + 1 < NumDev THEN di + 1 ELSE 0
    /\ pc' = NextPc("idle")
    /\ UNCHANGED <<kernelVars, objVars, stencilVars, cacheVars, x, part, y, alpha, beta, calls, ylog>>

(***************************************************************************)
(* The devices: each executes the commands of its queue in order.          *)
(***************************************************************************)
\* enqueueReadBuffer of x into the host halo buffer.
ExecRead(d, cmd) ==
    /\ cmd.op = "read"
    /\ hbuf' = Splice(hbuf, cmd.to, Slice(x, cmd.from, cmd.cnt))
    /\ hfill' = Splice(hfill, cmd.to, [k \in 1..cmd.cnt |-> cmd.call])
    /\ UNCHANGED <<dbuf, dfill, y, ylog>>

\* enqueueWriteBuffer(dbuf[d], CL_FALSE, 0, width * sizeof(T), &hbuf[d * width])
ExecWrite(d, cmd) ==
    /\ cmd.op = "write"
    /\ dbuf' = [dbuf EXCEPT ![d + 1] = Splice(@, 0, Slice(hbuf, cmd.from, cmd.cnt))]
    /\ dfill' = [dfill EXCEPT ![d + 1] =
                     Splice(@, 0, [k \in 1..cmd.cnt |->
                                      IF hfill[cmd.from + k] = cmd.call
                                      THEN cmd.call ELSE 0 - 1])]
    /\ UNCHANGED <<hbuf, hfill, y, ylog>>

\* What the kernel of cmd writes to the partition yloc of device d, with
\* the shared coefficients S (fast_conv only).
KernelResult(d, cmd, yloc, S) ==
    LET xloc == Slice(x, part_start(d), cmd.n)
        xrem == dbuf[d + 1]
    IN  IF cmd.name = "slow_conv"
        THEN SlowKernel(cmd.n, cmd.has_left, cmd.has_right, cmd.lhalo, cmd.rhalo,
                        s[d + 1], xloc, xrem, yloc, cmd.alpha, cmd.beta, cmd.gs)
        ELSE IF cmd.name = "convolve"
        THEN OperKernel(cmd.impl, cmd.n, cmd.has_left, cmd.has_right, cmd.lhalo,
                        cmd.rhalo, xloc, xrem, yloc, cmd.alpha, cmd.beta,
                        cmd.bs, cmd.gs)
        ELSE FastKernel(cmd.n, cmd.has_left, cmd.has_right, cmd.lhalo, cmd.rhalo,
                        S, xloc, xrem, yloc, cmd.alpha, cmd.beta, cmd.bs, cmd.gs)

\* What the work items of the kernel may find in S.
KernelViews(d, cmd) ==
    IF cmd.name = "fast_conv" THEN StagedViews(s[d + 1]) ELSE {s[d + 1]}

ExecKernel(d, cmd) ==
    /\ cmd.op = "kernel"
    /\ \E S \in KernelViews(d, cmd) :
          LET start == part_start(d)
              ynew == KernelResult(d, cmd, Slice(y, start, cmd.n), S)
          IN  /\ y' = Splice(y, start, ynew)
              /\ ylog' = [ylog EXCEPT ![cmd.call + 1] = Splice(@, start, ynew)]
    /\ UNCHANGED <<hbuf, dbuf, hfill, dfill>>

DeviceExec(d) ==
    /\ status = "ok"
    /\ cq[d + 1] # << >>
    /\ LET cmd == Head(cq[d + 1])
       IN  \/ ExecRead(d, cmd)
           \/ ExecWrite(d, cmd)
           \/ ExecKernel(d, cmd)
    /\ cq' = [cq EXCEPT ![d + 1] = Tail(@)]
    /\ UNCHANGED <<status, queue, s, lhalo, rhalo, conv, loc_s, loc_x, cacheVars,
                   kernelVars, objVars,
                   x, part, alpha, beta, pc, di, calls, log>>

\* The steps of a call in progress and of the devices.
Run ==
    \/ ReadStep
    \/ Finish1
    \/ WriteStep
    \/ Finish2
    \/ LaunchStep
    \/ \E d \in 0..(MaxD - 1) : d < NumDev /\ DeviceExec(d)

(***************************************************************************)
(* Spec: one stencil, one convolve call on any input.                      *)
(***************************************************************************)
Next ==
    \/ Construct
    \/ Convolve
    \/ Run

Spec == Init /\ [][Next]_vars

(***************************************************************************)
(* SpecRepeat: one stencil, the same call made MaxCalls times.             *)
(***************************************************************************)
\* The longest vector of the repeated calls.
MaxNRepeat == 3

ConvolveFirst == ConvolveIn(InputsUpTo(MaxNRepeat))

NextRepeat ==
    \/ Construct
    \/ ConvolveFirst
    \/ ConvolveAgain
    \/ Run

SpecRepeat == Init /\ [][NextRepeat]_vars

(***************************************************************************)
(* SpecCache: MaxStencils stencils constructed one after another in one    *)
(* process, each followed by at most one convolve call; the kernel caches  *)
(* are static and outlive the stencils.                                    *)
(***************************************************************************)
\* The longest vector of these calls.
MaxNCache == 2

\* The next stencil is constructed once the previous one is at rest.
Reconstruct ==
    /\ status = "ok"
    /\ pc = "idle"
    /\ AllDrained
    /\ nstencils < MaxStencils
    /\ \E q \in QueueSet, coef \in StencilSet, center \in 0..MaxWidth :
          ConstructBody(q, coef, center)

\* Overwriting calls on short vectors.
ConvolveSmall == ConvolveIn({inp \in InputsUpTo(MaxNCache) : inp.alpha = 0})

NextCache ==
    \/ Construct
    \/ Reconstruct
    \/ ConvolveSmall
    \/ Run

SpecCache == Init /\ [][NextCache]_vars

(***************************************************************************)
(* SpecCalls: one stencil, MaxCalls calls one after another, each on       *)
(* another vector of the same length with another partitioning, or the     *)
(* first call made twice.                                                  *)
(***************************************************************************)
\* The vector of the call after one on xv.
OtherX(xv) == [i \in 1..Len(xv) |-> xv[i] + i]

\* The partitioning of the call after one partitioned by p: the sizes of
\* the partitions in the opposite order.
OtherPart(p) == [k \in 1..Len(p) |-> p[Len(p)] - p[Len(p) + 1 - k]]

\* A later call of the program, made once the devices are at rest: another
\* x, partitioned in another way, and y passed back in.
ConvolveOther ==
    /\ status = "ok"
    /\ pc = "idle"
    /\ AllDrained
    /\ calls >= 1
    /\ calls < MaxCalls
    /\ BeginConvolve(OtherX(x), OtherPart(part), y, alpha, beta)

\* The second call made as the first one again, at once: the kernels of
\* the first may still be in the queues.
ConvolveAtOnce == calls = 1 /\ ConvolveAgain

NextCalls ==
    \/ Construct
    \/ ConvolveSmall
    \/ ConvolveAtOnce
    \/ ConvolveOther
    \/ Run

SpecCalls == Init /\ [][NextCalls]_vars

(***************************************************************************)
(* SpecInit: one stencil of a width on either side of the widest tiled     *)
(* stencil, and one convolve call.                                         *)
(***************************************************************************)
\* Widths 1, 3, TileMaxWidth and TileMaxWidth + 1.
WideStencilSet ==
    {[k \in 1..w |-> CoefB(k)] : w \in {1, 3, TileMaxWidth, TileMaxWidth + 1}}

ConstructWide ==
    /\ status = "none"
    /\ \E q \in QueueSet \ {<< >>}, coef \in WideStencilSet,
          center \in {0, 1, TileMaxWidth - 1} :
          /\ center < Len(coef)
          /\ ConstructBody(q, coef, center)

NextInit ==
    \/ ConstructWide
    \/ ConvolveSmall
    \/ Run

SpecInit == Init /\ [][NextInit]_vars

(***************************************************************************)
(* SpecKernel: one launch of one kernel on arguments of any shape: the     *)
(* partition size, the neighbour flags, the halo, the buffers, alpha and   *)
(* beta, the work-group size and the number of groups.                     *)
(***************************************************************************)
\* The halo buffer of a device after an upload.
HaloData(width) == [k \in 1..width |-> 20 + k]

\* Other prior contents of y.
Y1(N) == [i \in 1..N |-> IF i = 1 THEN Uninit ELSE 7 - 3 * i]

KernelInputs ==
    {[n |-> n, has_left |-> hl, has_right |-> hr, lhalo |-> c,
      rhalo |-> Len(coef) - c - 1, s |-> coef, xloc |-> Squares(n),
      xrem |-> HaloData(Len(coef)), y |-> Y0(n), yalt |-> Y1(n),
      alpha |-> ab[1], beta |-> ab[2], bs |-> bs, gs |-> bs * g] :
        n \in 1..(MaxN - 2), hl \in BOOLEAN, hr \in BOOLEAN,
        coef \in StencilSet \ {<< >>}, c \in 0..(MaxWidth - 1),
        ab \in ABSet, bs \in 1..2, g \in 1..NumGroups}

InitKernel ==
    /\ InitStencil
    /\ NoGroup
    /\ kin \in {k \in KernelInputs : k.rhalo >= 0}
    /\ kout = NoResult

\* The generic kernel on the arguments kin, from the prior contents yloc.
SlowOn(yloc) ==
    SlowKernel(kin.n, kin.has_left, kin.has_right, kin.lhalo, kin.rhalo, kin.s,
               kin.xloc, kin.xrem, yloc, kin.alpha, kin.beta, kin.gs)

\* The tiled kernel, its work items finding S in shared memory.
FastOn(yloc, S) ==
    FastKernel(kin.n, kin.has_left, kin.has_right, kin.lhalo, kin.rhalo, S,
               kin.xloc, kin.xrem, yloc, kin.alpha, kin.beta, kin.bs, kin.gs)

\* The operator kernel.
OperOn(yloc) ==
    OperKernel("pow3", kin.n, kin.has_left, kin.has_right, kin.lhalo, kin.rhalo,
               kin.xloc, kin.xrem, yloc, kin.alpha, kin.beta, kin.bs, kin.gs)

\* Each action launches the kernel twice on the same arguments: once on the
\* prior contents kin.y and once on kin.yalt.
RunSlow ==
    /\ kin # NoLaunch
    /\ kout = NoResult
    /\ kout' = [kernel |-> "slow_conv", view |-> kin.s, viewalt |-> kin.s,
                y |-> SlowOn(kin.y), yalt |-> SlowOn(kin.yalt)]
    /\ UNCHANGED <<stencilVars, cacheVars, callVars, objVars, kin>>

RunFast ==
    /\ kin # NoLaunch
    /\ kout = NoResult
    /\ \E S \in StagedViews(kin.s), Salt \in StagedViews(kin.s) :
          kout' = [kernel |-> "fast_conv", view |-> S, viewalt |-> Salt,
                   y |-> FastOn(kin.y, S), yalt |-> FastOn(kin.yalt, Salt)]
    /\ UNCHANGED <<stencilVars, cacheVars, callVars, objVars, kin>>

RunOper ==
    /\ kin # NoLaunch
    /\ kout = NoResult
    /\ kout' = [kernel |-> "convolve", view |-> kin.s, viewalt |-> kin.s,
                y |-> OperOn(kin.y), yalt |-> OperOn(kin.yalt)]
    /\ UNCHANGED <<stencilVars, cacheVars, callVars, objVars, kin>>

NextKernel ==
    \/ RunSlow
    \/ RunFast
    \/ RunOper

SpecKernel == InitKernel /\ [][NextKernel]_vars

(***************************************************************************)
(* SpecReadX: read_x called on the arguments of a launch at any offset     *)
(* within MaxWidth + 1 of the partition.                                   *)
(***************************************************************************)
ReadX ==
    /\ kin # NoLaunch
    /\ kout = NoResult
    /\ \E g \in (0 - MaxWidth - 1)..(kin.n + MaxWidth) :
          kout' = [kernel |-> "read_x", g_id |-> g,
                   value |-> read_x(g, kin.n, kin.has_left, kin.has_right,
                                    kin.lhalo, kin.rhalo, kin.xloc, kin.xrem)]
    /\ UNCHANGED <<stencilVars, cacheVars, callVars, objVars, kin>>

NextReadX == ReadX

SpecReadX == InitKernel /\ [][NextReadX]_vars

(***************************************************************************)
(* SpecOper: MaxStencils user-defined operators of the types OperTypes      *)
(* constructed one after another in one process, each followed by at most  *)
(* one convolve call. The statics cache and lmem of                        *)
(* StencilOperator<T, width, center, Impl>::convolve exist once per         *)
(* instantiation of the template, that is once per operator type.          *)
(***************************************************************************)
\* One cache for the operators of every type.
CacheOfAnyType(type) == "pow3"

\* static kernel_cache cache of the instantiation for the operator type.
CacheOf(type) == type

\* StencilOperator(queue): the base constructor with the width and the
\* center of the type and no coefficients (begin = end); nothing is
\* compiled.
ConstructOper(q, type) ==
    LET D == Len(q)
    IN  /\ status' = IF PreconditionsHold(q, OperWidth, OperCenter)
                     THEN "ok" ELSE "assert"
        /\ queue' = q
        /\ s' = [d \in 1..D |-> << >>]
        /\ lhalo' = HaloOf(OperWidth, OperCenter).lhalo
        /\ rhalo' = HaloOf(OperWidth, OperCenter).rhalo
        /\ hbuf' = [k \in 1..(D * (OperWidth - 1)) |-> 0]
        /\ dbuf' = [d \in 1..D |-> [k \in 1..OperWidth |-> Uninit]]
        /\ hfill' = [k \in 1..(D * (OperWidth - 1)) |-> 0]
        /\ dfill' = [d \in 1..D |-> [k \in 1..OperWidth |-> 0]]
        /\ conv' = << >>
        /\ loc_s' = << >>
        /\ loc_x' = << >>
        /\ nstencils' = nstencils + 1
        /\ x' = << >>
        /\ part' = [k \in 1..(D + 1) |-> 0]
        /\ y' = << >>
        /\ alpha' = 0
        /\ beta' = 0
        /\ pc' = "idle"
        /\ di' = 0
        /\ cq' = [d \in 1..D |-> << >>]
        /\ calls' = 0
        /\ log' = {}
        /\ ylog' = << >>
        /\ args' = [width |-> OperWidth, center |-> OperCenter]
        /\ oper' = type
        /\ UNCHANGED <<cache, compiled, kernelVars, expr, ocache, ocompiled, lmem,
                       wgVars>>

\* The first operator of the process.
DeclareOper ==
    /\ status = "none"
    /\ \E q \in QueueSet, type \in OperTypes : ConstructOper(q, type)

\* The next operator is declared once the previous one is at rest.
DeclareNextOper ==
    /\ status = "ok"
    /\ pc = "idle"
    /\ AllDrained
    /\ nstencils < MaxStencils
    /\ \E q \in QueueSet, type \in OperTypes : ConstructOper(q, type)

\* StencilOperator::convolve, the loop over the devices, iteration d = di:
\* the kernel of the context is looked up in the cache of the type and
\* compiled from Impl::body() if it is not there, then launched if the
\* partition is not empty.
OperLaunchStep ==
    /\ pc = "launch"
    /\ oper # "none"
    /\ LET d == di
           dev == queue[d + 1]
           key == CacheOf(oper)
           miss == CacheFind(ocache[key], dev.ctx) = {}
           krn == [name |-> "convolve", impl |-> oper, ctx |-> dev.ctx,
                   wgs |-> WorkgroupSize(dev),
                   serial |-> Len(ocompiled) + 1]
           c2 == IF miss THEN CacheInsert(ocache[key], dev.ctx, krn)
                 ELSE ocache[key]
           kernel == Inserted(c2, dev.ctx)[2]
           l2 == IF miss
                 THEN {p \in lmem[key] : p[1] # dev.ctx}
                          \cup {<<dev.ctx, krn.wgs + OperWidth - 1>>}
                 ELSE lmem[key]
           psize == part_size(d)
       IN  /\ ocache' = [ocache EXCEPT ![key] = c2]
           /\ ocompiled' = IF miss THEN Append(ocompiled, <<oper, dev.ctx>>)
                           ELSE ocompiled
           /\ lmem' = [lmem EXCEPT ![key] = l2]
           /\ IF psize # 0
              THEN /\ cq' = [cq EXCEPT ![d + 1] =
                                Append(@, [op |-> "kernel", name |-> kernel.name,
                                           impl |-> kernel.impl,
                                           n |-> psize,
                                           has_left |-> (d > 0),
                                           has_right |-> (d + 1 < NumDev),
                                           lhalo |-> lhalo, rhalo |-> rhalo,
                                           alpha |-> alpha, beta |-> beta,
                                           bs |-> kernel.wgs,
                                           gs |-> GridSize(kernel),
                                           call |-> calls])]
                   /\ log' = log \cup {<<calls, "push_arg", d>>,
                                       <<calls, "launch", d>>}
              ELSE UNCHANGED <<cq, log>>
    /\ di' = IF di + 1 < NumDev THEN di + 1 ELSE 0
    /\ pc' = NextPc("idle")
    /\ UNCHANGED <<kernelVars, args, expr, oper, wgVars, stencilVars, cacheVars,
                   x, part, y, alpha, beta, calls, ylog>>

\* The steps of an operator's call in progress and of the devices.
OperRun ==
    \/ ReadStep
    \/ Finish1
    \/ WriteStep
    \/ Finish2
    \/ OperLaunchStep
    \/ \E d \in 0..(MaxD - 1) : d < NumDev /\ DeviceExec(d)

NextOper ==
    \/ DeclareOper
    \/ DeclareNextOper
    \/ ConvolveSmall
    \/ OperRun

SpecOper == Init /\ [][NextOper]_vars

(***************************************************************************)
(* SpecMixed: stencils and user-defined operators constructed one after    *)
(* another in one process, MaxObjects objects in all, each followed by at  *)
(* most one convolve call. The stencils are second differences.            *)
(***************************************************************************)
\* The objects of the process.
MaxObjects == 2

\* stencil<T>(queue, {1, -2, 1}, 1)
ConstructDifference ==
    /\ \/ status = "none"
       \/ /\ status = "ok"
          /\ pc = "idle"
          /\ AllDrained
          /\ nstencils < MaxObjects
    /\ \E q \in QueueSet : ConstructBody(q, [k \in 1..3 |-> CoefA(k)], 1)

NextMixed ==
    \/ ConstructDifference
    \/ DeclareOper
    \/ (nstencils < MaxObjects /\ DeclareNextOper)
    \/ ConvolveSmall
    \/ Run
    \/ OperLaunchStep

SpecMixed == Init /\ [][NextMixed]_vars

(***************************************************************************)
(* SpecExpr: one stencil or one user-defined operator, and one assignment  *)
(* of its product with a vector to y.                                      *)
(***************************************************************************)
\* The scales of a product.
ScaleSet == {1, 2}

\* The ways to write the product: operator*(x, s), operator*(s, x) and, for
\* an operator, operator()(x).
FormsOf(type) == IF type = "none" THEN {"x*s", "s*x"} ELSE {"op(x)"}

\* conv(s, x): whatever the form, the same object, with the scale 1.
MakeConv(form) == [form |-> form, scale |-> 1]

\* The additive transform scaled by c.
Scaled(e, c) == [e EXCEPT !.scale = c]

\* The template arguments <negate, append> with which an assignment
\* applies an additive transform.
FlagsOf(op) ==
    [negate |-> (op = "-="), append |-> (op # "=")]

\* apply passing the scale on whatever negate says.
apply_keeping_sign(negate, append, scale) ==
    [alpha |-> IF append THEN 1 ELSE 0, beta |-> scale]

\* conv::apply<negate, append>(y): the alpha and beta of its convolve call.
apply(negate, append, scale) ==
    [alpha |-> IF append THEN 1 ELSE 0,
     beta |-> IF negate THEN 0 - scale ELSE scale]

\* y = c * (x * s), y += ..., y -= ...
Assign ==
    /\ status = "ok"
    /\ pc = "idle"
    /\ calls = 0
    /\ \E op \in {"=", "+=", "-="}, form \in FormsOf(oper), c \in ScaleSet,
          inp \in {i \in InputsUpTo(MaxNCache) : i.alpha = 0} :
          LET e == Scaled(MakeConv(form), c)
              ab == apply(FlagsOf(op).negate, FlagsOf(op).append, e.scale)
          IN  /\ Len(inp.part) = NumDev + 1
              /\ Len(inp.x) = inp.part[NumDev + 1]
              /\ BeginApply(inp.x, inp.part, Y0(Len(inp.x)), ab.alpha, ab.beta,
                            [op |-> op, form |-> e.form, scale |-> e.scale])

NextExpr ==
    \/ Construct
    \/ DeclareOper
    \/ Assign
    \/ Run
    \/ OperLaunchStep

SpecExpr == Init /\ [][NextExpr]_vars

(***************************************************************************)
(* SpecGroup: the work items of one work group of one launch, step by      *)
(* step and in every interleaving. The groups of a launch share no local   *)
(* memory and no barrier, and write disjoint elements of y, so one group   *)
(* is followed at a time; grp says which. A work item of the tiled kernels *)
(* goes start (fast_conv only), loop, stage, barrier1, compute, barrier2   *)
(* and back to loop; one of the generic kernel goes start, sum.            *)
(***************************************************************************)
\* read_x's access for g_id: the buffer and the index it reads, <<"zero",
\* g_id>> where it returns 0 without reading.
read_x_at(g_id, n, has_left, has_right, lh, rh) ==
    IF g_id >= 0 /\ g_id < n
    THEN <<"xloc", g_id>>
    ELSE IF g_id < 0
         THEN IF has_left
              THEN (IF lh + g_id >= 0 THEN <<"xrem", lh + g_id>>
                    ELSE <<"zero", g_id>>)
              ELSE <<"xloc", 0>>
         ELSE IF has_right
              THEN (IF g_id < n + rh THEN <<"xrem", lh + g_id - n>>
                    ELSE <<"zero", g_id>>)
              ELSE <<"xloc", n - 1>>

\* The launches followed: overwriting and accumulating ones.
GroupInputs ==
    {k \in KernelInputs : k.rhalo >= 0 /\ <<k.alpha, k.beta>> \in {<<0, 1>>, <<1, 2>>}}

\* A slot of X nobody has written.
Unwritten == [val |-> Uninit, arg |-> 0, pos |-> 0 - 1]

InitGroup ==
    /\ InitStencil
    /\ kout = NoResult
    /\ kin \in GroupInputs
    /\ kern \in {"slow_conv", "fast_conv", "convolve"}
    /\ grp \in 0..((kin.gs \div kin.bs) - 1)
    /\ wi = [l \in 0..(kin.bs - 1) |->
                [pc |-> IF kern = "convolve" THEN "loop" ELSE "start",
                 g_id |-> grp * kin.bs + l, pos |-> 0, i |-> l, bar |-> 0]]
    /\ X_tile = [k \in 0..(TileElements(kin.bs, kin.lhalo, kin.rhalo) - 1) |->
                    Unwritten]
    /\ S_shared = [k \in 1..Len(kin.s) |-> Uninit]
    /\ ncopied = 0 - 1
    /\ yw = kin.y
    /\ touched = {}
    /\ writes = {}

Items == DOMAIN wi

\* The loop going on as long as the work item's own index is inside.
LoopGoesOnInside(pos, g_id, n) == g_id < n

\* pos < n of the outer loop of the tiled kernels.
LoopGoesOn(pos, g_id, n) == pos < n

\* i < block_size + lhalo + rhalo of the staging loop.
StageBound(bs, lh, rh) == bs + lh + rh

\* A work item going on to the next iteration without the second barrier.
AfterComputeGoesOn == "next"

\* barrier() after the sum.
AfterCompute == "barrier2"

\* A step of the work group leaves the host's side alone.
GroupFrame ==
    UNCHANGED <<stencilVars, cacheVars, callVars, kernelVars, args, expr,
                operVars, kern, grp>>

\* async_work_group_copy(S, s, lhalo + rhalo + 1, 0): the work item issues
\* the copy and goes on; nothing waits for the event it returns.
IssueCopy(l) ==
    /\ kern = "fast_conv"
    /\ wi[l].pc = "start"
    /\ ncopied' = IF ncopied < 0 THEN 0 ELSE ncopied
    /\ wi' = [wi EXCEPT ![l].pc = "loop"]
    /\ GroupFrame
    /\ UNCHANGED <<X_tile, S_shared, yw, touched, writes>>

\* The copy engine moves one coefficient from s to S.
CopyStep ==
    /\ kern = "fast_conv"
    /\ ncopied >= 0
    /\ ncopied < kin.lhalo + kin.rhalo + 1
    /\ S_shared' = [S_shared EXCEPT ![ncopied + 1] = At(kin.s, ncopied)]
    /\ ncopied' = ncopied + 1
    /\ touched' = touched \cup {<<"s", ncopied>>, <<"S", ncopied>>}
    /\ GroupFrame
    /\ UNCHANGED <<wi, X_tile, yw, writes>>

\* for(...; pos < n; ...)
LoopTest(l) ==
    /\ kern \in {"fast_conv", "convolve"}
    /\ wi[l].pc = "loop"
    /\ wi' = [wi EXCEPT ![l].pc = IF LoopGoesOn(wi[l].pos, wi[l].g_id, kin.n)
                                  THEN "stage" ELSE "done",
                        ![l].i = l]
    /\ GroupFrame
    /\ UNCHANGED <<X_tile, S_shared, ncopied, yw, touched, writes>>

\* X[i] = read_x(j, ...); i += block_size, j += block_size
Stage(l) ==
    /\ wi[l].pc = "stage"
    /\ LET i == wi[l].i
           j == wi[l].g_id - kin.lhalo + (i - l)
           v == read_x(j, kin.n, kin.has_left, kin.has_right, kin.lhalo,
                       kin.rhalo, kin.xloc, kin.xrem)
       IN  /\ X_tile' = [k \in DOMAIN X_tile |->
                            IF k = i THEN [val |-> v, arg |-> j, pos |-> wi[l].pos]
                            ELSE X_tile[k]]
           /\ touched' = touched \cup
                  {<<"X", i>>,
                   read_x_at(j, kin.n, kin.has_left, kin.has_right,
                             kin.lhalo, kin.rhalo)}
           /\ writes' = writes \cup {<<wi[l].pos, i, l>>}
           /\ wi' = [wi EXCEPT
                        ![l].i = i + kin.bs,
                        ![l].pc = IF i + kin.bs < StageBound(kin.bs, kin.lhalo, kin.rhalo)
                                  THEN "stage" ELSE "barrier1"]
    /\ GroupFrame
    /\ UNCHANGED <<S_shared, ncopied, yw>>

\* What the work items find in X.
TileValues ==
    [k \in 0..(StageBound(kin.bs, kin.lhalo, kin.rhalo) - 1) |->
        IF k \in DOMAIN X_tile THEN X_tile[k].val ELSE Uninit]

\* Where a work item goes when the barrier lets it go.
AfterBarrier(w) ==
    IF w.pc = "barrier1"
    THEN [w EXCEPT !.pc = "compute", !.bar = @ + 1]
    ELSE [w EXCEPT !.pc = "loop", !.bar = @ + 1,
                   !.g_id = @ + kin.gs, !.pos = @ + kin.gs]

\* barrier(): the work items of the group go on once all of them wait.
Barrier ==
    /\ Items # {}
    /\ \A l \in Items : wi[l].pc \in {"barrier1", "barrier2"}
    /\ wi' = [l \in Items |-> AfterBarrier(wi[l])]
    /\ GroupFrame
    /\ UNCHANGED <<X_tile, S_shared, ncopied, yw, touched, writes>>

\* The step of a work item after its sum: to the second barrier.
Leave(w) ==
    IF AfterCompute = "barrier2"
    THEN [w EXCEPT !.pc = "barrier2"]
    ELSE [w EXCEPT !.pc = "loop", !.g_id = @ + kin.gs, !.pos = @ + kin.gs]

\* if (g_id < n) { sum = ...; y[g_id] = ...; } of fast_conv
ComputeFast(l) ==
    /\ kern = "fast_conv"
    /\ wi[l].pc = "compute"
    /\ LET g == wi[l].g_id
       IN  IF g < kin.n
           THEN /\ yw' = [yw EXCEPT ![g + 1] =
                             Store(@, kin.alpha, kin.beta,
                                   FastSum(0 - kin.lhalo, kin.rhalo, l, kin.lhalo,
                                           S_shared, TileValues))]
                /\ touched' = touched \cup {<<"y", g>>}
                       \cup {<<"S", kin.lhalo + j>> : j \in (0 - kin.lhalo)..kin.rhalo}
                       \cup {<<"X", kin.lhalo + l + j>> : j \in (0 - kin.lhalo)..kin.rhalo}
           ELSE UNCHANGED <<yw, touched>>
    /\ wi' = [wi EXCEPT ![l] = Leave(@)]
    /\ GroupFrame
    /\ UNCHANGED <<X_tile, S_shared, ncopied, writes>>

\* if (g_id < n) { sum = stencil_oper(X + lhalo + l_id); y[g_id] = ...; }
ComputeOper(l) ==
    /\ kern = "convolve"
    /\ wi[l].pc = "compute"
    /\ LET g == wi[l].g_id
           c == kin.lhalo + l
       IN  IF g < kin.n
           THEN /\ yw' = [yw EXCEPT ![g + 1] =
                             Store(@, kin.alpha, kin.beta,
                                   stencil_oper("pow3", TileValues, c,
                                                kin.lhalo, kin.rhalo))]
                /\ touched' = touched \cup
                       {<<"y", g>>, <<"X", c>>, <<"X", c - kin.lhalo>>,
                        <<"X", c + kin.rhalo>>}
           ELSE UNCHANGED <<yw, touched>>
    /\ wi' = [wi EXCEPT ![l] = Leave(@)]
    /\ GroupFrame
    /\ UNCHANGED <<X_tile, S_shared, ncopied, writes>>

\* grid_stride_loop() of slow_conv: for(idx = get_global_id(0); idx < n; ...)
SlowTest(l) ==
    /\ kern = "slow_conv"
    /\ wi[l].pc = "start"
    /\ wi' = [wi EXCEPT ![l].pc = IF wi[l].g_id < kin.n THEN "sum" ELSE "done"]
    /\ GroupFrame
    /\ UNCHANGED <<X_tile, S_shared, ncopied, yw, touched, writes>>

\* One iteration of the loop of slow_conv; idx += get_global_size(0).
SlowIter(l) ==
    /\ kern = "slow_conv"
    /\ wi[l].pc = "sum"
    /\ LET idx == wi[l].g_id
       IN  /\ yw' = [yw EXCEPT ![idx + 1] =
                        Store(@, kin.alpha, kin.beta,
                              SlowSum(0 - kin.lhalo, kin.rhalo, idx, kin.n,
                                      kin.has_left, kin.has_right, kin.lhalo,
                                      kin.rhalo, kin.s, kin.xloc, kin.xrem))]
           /\ touched' = touched \cup {<<"y", idx>>}
                  \cup {<<"s", kin.lhalo + j>> : j \in (0 - kin.lhalo)..kin.rhalo}
                  \cup {read_x_at(idx + j, kin.n, kin.has_left, kin.has_right,
                                  kin.lhalo, kin.rhalo) :
                            j \in (0 - kin.lhalo)..kin.rhalo}
           /\ wi' = [wi EXCEPT ![l].g_id = idx + kin.gs,
                               ![l].pc = IF idx + kin.gs < kin.n
                                         THEN "sum" ELSE "done"]
    /\ GroupFrame
    /\ UNCHANGED <<X_tile, S_shared, ncopied, writes>>

NextGroup ==
    \/ \E l \in Items : IssueCopy(l)
    \/ CopyStep
    \/ \E l \in Items : LoopTest(l)
    \/ \E l \in Items : Stage(l)
    \/ Barrier
    \/ \E l \in Items : ComputeFast(l)
    \/ \E l \in Items : ComputeOper(l)
    \/ \E l \in Items : SlowTest(l)
    \/ \E l \in Items : SlowIter(l)

SpecGroup == InitGroup /\ [][NextGroup]_vars

\* The device runs every work item and the copy engine.
FairSpecGroup == SpecGroup /\ WF_vars(NextGroup)

(***************************************************************************)
(* What the claims speak of.                                               *)
(***************************************************************************)
\* The call c has returned and every command it enqueued has executed.
Completed(c) ==
    /\ status = "ok"
    /\ calls >= c
    /\ calls = c => pc = "idle"
    /\ \A e \in 1..NumDev : \A k \in 1..Len(cq[e]) :
          cq[e][k].op = "kernel" => cq[e][k].call > c

\* x[min(max(i, 0), N - 1)], i 0-based.
ClampRead(xv, i) == xv[Min(Max(i, 0), Len(xv) - 1) + 1]

\* SUM_{j = from .. rh} coef[lh + j] * x[clamp(i + j)]
RECURSIVE RefSum(_, _, _, _, _, _)
RefSum(j, i, coef, lh, rh, xv) ==
    IF j > rh THEN 0
    ELSE coef[lh + j + 1] * ClampRead(xv, i + j)
         + RefSum(j + 1, i, coef, lh, rh, xv)

\* y = alpha * yold + beta * conv(x) with the coefficients coef.
RefConv(coef, lh, rh, xv, yold, a, b) ==
    [i \in 1..Len(xv) |-> a * yold[i] + b * RefSum(0 - lh, i - 1, coef, lh, rh, xv)]

\* C1: on a single device convolve leaves
\* y[i] = alpha * y_old[i] + beta * SUM_j s[lhalo + j] * x[clamp(i + j, 0, N - 1)],
\* and s = [1, -2, 1], center 1, x = [0, 1, 4, 9, 16], alpha 0, beta 1
\* gives y = [1, 2, 2, 2, -7].
C1_SingleDeviceConvolution ==
    (Completed(1) /\ NumDev = 1) =>
        /\ y = RefConv(s[1], lhalo, rhalo, x, Y0(Len(x)), alpha, beta)
        /\ (/\ s[1] = <<1, 0 - 2, 1>>
            /\ lhalo = 1
            /\ x = ExampleX
            /\ alpha = 0
            /\ beta = 1) => y = <<1, 2, 2, 2, 0 - 7>>

\* The same on the devices that run the generic kernel.
GenericSingleDeviceConvolution ==
    (Completed(1) /\ NumDev = 1 /\ conv[1].name = "slow_conv") =>
        y = RefConv(s[1], lhalo, rhalo, x, Y0(Len(x)), alpha, beta)

\* Every device owns at least one element.
AllNonEmpty == \A d \in 0..(NumDev - 1) : part_size(d) > 0

\* The kernel commands enqueued on device d and not yet executed.
PendingKernels(d) ==
    {cq[d + 1][k] : k \in {k \in 1..Len(cq[d + 1]) : cq[d + 1][k].op = "kernel"}}

\* What the kernel cmd of device d reads at the offsets g_id it sums over.
ReadsAreGlobal(d, cmd) ==
    \A g \in (0 - lhalo)..(cmd.n + rhalo - 1) :
        read_x(g, cmd.n, cmd.has_left, cmd.has_right, lhalo, rhalo,
               Slice(x, part_start(d), cmd.n), dbuf[d + 1])
            = ClampRead(x, part_start(d) + g)

\* SUM_j S[lhalo + j] * x[clamp(i + j)] over coefficients that may be unwritten.
RECURSIVE RefSumOver(_, _, _, _, _, _)
RefSumOver(j, i, S, lh, rh, xv) ==
    IF j > rh THEN 0
    ELSE Add(Mul(S[lh + j + 1], ClampRead(xv, i + j)),
             RefSumOver(j + 1, i, S, lh, rh, xv))

\* The coefficients the kernel of device d may find.
Views(d) ==
    IF conv[d + 1].name = "slow_conv" THEN {s[d + 1]} ELSE StagedViews(s[d + 1])

\* The partition of device d holds what one device computes for the whole
\* vector, from yold.
PartIsGlobalResult(d, yold) ==
    \E S \in Views(d) :
        \A i \in part_start(d)..(part_start(d + 1) - 1) :
            y[i + 1] = Store(yold[i + 1], alpha, beta,
                             RefSumOver(0 - lhalo, i, S, lhalo, rhalo, x))

\* C2: split-invariance. For any number of ordered contiguous non-empty
\* partitions, every value a partition's kernel reads at local offset g_id
\* equals x[clamp(part_start + g_id, 0, N - 1)], and y is what the
\* single-device computation produces.
C2_SplitInvariance ==
    (status = "ok" /\ AllNonEmpty) =>
        /\ \A d \in 0..(NumDev - 1) :
              \A cmd \in PendingKernels(d) : ReadsAreGlobal(d, cmd)
        /\ Completed(1) =>
              \A d \in 0..(NumDev - 1) : PartIsGlobalResult(d, Y0(Len(x)))

\* A call over three partitions, one shorter than the left halo, has completed
\* with the result of the single-device computation.
C2_Witness ==
    /\ Completed(1)
    /\ NumDev = 3
    /\ AllNonEmpty
    /\ lhalo = 2
    /\ part_size(1) = 1
    /\ y = RefConv(s[1], lhalo, rhalo, x, Y0(Len(x)), alpha, beta)

\* Everything the kernel named k can leave in y from the prior contents yloc.
ResultsFrom(k, yloc) ==
    IF k = "slow_conv" THEN {SlowOn(yloc)}
    ELSE IF k = "fast_conv" THEN {FastOn(yloc, S) : S \in StagedViews(kin.s)}
    ELSE {OperOn(yloc)}

\* conv(x) of the kernel named k: what it writes with alpha = 0 and beta = 1,
\* its work items finding the coefficients S.
PlainConv(k, S) ==
    IF k = "slow_conv"
    THEN SlowKernel(kin.n, kin.has_left, kin.has_right, kin.lhalo, kin.rhalo,
                    S, kin.xloc, kin.xrem, kin.y, 0, 1, kin.gs)
    ELSE IF k = "fast_conv"
    THEN FastKernel(kin.n, kin.has_left, kin.has_right, kin.lhalo, kin.rhalo,
                    S, kin.xloc, kin.xrem, kin.y, 0, 1, kin.bs, kin.gs)
    ELSE OperKernel("pow3", kin.n, kin.has_left, kin.has_right, kin.lhalo, kin.rhalo,
                    kin.xloc, kin.xrem, kin.y, 0, 1, kin.bs, kin.gs)

\* out = alpha * yold + beta * conv, element by element.
Accumulates(out, yold, csum) ==
    \A i \in 1..kin.n :
        out[i] = Add(Mul(kin.alpha, yold[i]), Mul(kin.beta, csum[i]))

\* C3: overwrite independence, for the generic kernel, the tiled kernel and
\* the user-defined operator kernel. With alpha = 0 the prior contents of y
\* have no influence on the result: what a launch leaves from one prior y it
\* can leave from any other, and the generic and the operator kernel leave
\* the same y from both. With alpha # 0 the result is
\* alpha * y_old + beta * conv(x).
C3_OverwriteIndependence ==
    kout.kernel # "none" =>
        /\ kin.alpha = 0 =>
              /\ ResultsFrom(kout.kernel, kin.y) = ResultsFrom(kout.kernel, kin.yalt)
              /\ kout.y \in ResultsFrom(kout.kernel, kin.yalt)
              /\ kout.yalt \in ResultsFrom(kout.kernel, kin.y)
              /\ kout.view = kout.viewalt => kout.y = kout.yalt
        /\ kin.alpha # 0 =>
              /\ Accumulates(kout.y, kin.y, PlainConv(kout.kernel, kout.view))
              /\ Accumulates(kout.yalt, kin.yalt,
                             PlainConv(kout.kernel, kout.viewalt))

\* The tiled kernel has overwritten three elements of y, one of them never
\* written before, and left the same from both prior contents.
C3_Witness ==
    /\ kout.kernel = "fast_conv"
    /\ kin.alpha = 0
    /\ kin.n = 3
    /\ kin.y # kin.yalt
    /\ kout.view = kin.s
    /\ kout.y = kout.yalt
    /\ \A i \in 1..kin.n : kout.y[i] # Uninit

\* The operator kernel has accumulated into y.
OperAccumulated ==
    /\ kout.kernel = "convolve"
    /\ kin.alpha # 0
    /\ kin.n = 3
    /\ \A i \in 1..kin.n : kout.y[i] # Uninit /\ kout.y[i] # kin.y[i]

\* C5: strategy equivalence. For every stencil, partition size, neighbour
\* flags, halo contents, alpha, beta, work-group size and grid size the tiled
\* kernel writes to every output index in [0, n) the value the generic
\* kernel writes.
C5_StrategyEquivalence ==
    kout.kernel = "fast_conv" =>
        \A i \in 1..kin.n : kout.y[i] = SlowOn(kin.y)[i]

\* The two kernels agree whenever the work items find all of s in S.
StagedStrategyEquivalence ==
    (kout.kernel = "fast_conv" /\ kout.view = kin.s) =>
        \A i \in 1..kin.n : kout.y[i] = SlowOn(kin.y)[i]

\* C4: determinism across repeated calls. Calling convolve again on the same
\* stencil with x, alpha and beta unchanged, y passed back in, leaves the y
\* the first call left.
C4_RepeatedCallsAgree ==
    \A c \in 2..MaxCalls : Completed(c) => ylog[c + 1] = ylog[2]

\* The same for calls that overwrite y on devices running the generic kernel.
GenericOverwriteCallsAgree ==
    \A c \in 2..MaxCalls :
        (/\ Completed(c)
         /\ alpha = 0
         /\ \A d \in 1..NumDev : conv[d].name = "slow_conv")
            => ylog[c + 1] = ylog[2]

\* The commands of kind op enqueued on device d and not yet executed.
Pending(d, op) == {k \in 1..Len(cq[d + 1]) : cq[d + 1][k].op = op}

\* The call in progress has launched a kernel.
HasLaunched == \E d \in 0..(NumDev - 1) : <<calls, "launch", d>> \in log

\* The halo buffer of device d holds the slot of d in the host buffer.
HaloUploaded(d) ==
    dbuf[d + 1] = Splice(dbuf[d + 1], 0,
                         Slice(hbuf, d * (lhalo + rhalo), lhalo + rhalo))

\* C6: halo-before-launch ordering. In a convolve call on more than one
\* device with lhalo + rhalo > 0 no kernel is launched until the second
\* barrier has returned: by then every halo upload of the call has completed,
\* and no kernel runs against a partially updated device halo buffer.
C6_HaloBeforeLaunch ==
    (status = "ok" /\ NumDev > 1 /\ lhalo + rhalo > 0 /\ HasLaunched) =>
        /\ <<calls, "finish", 1>> \in log
        /\ <<calls, "finish", 2>> \in log
        /\ \A d \in 0..(NumDev - 1) :
              /\ Pending(d, "read") = {}
              /\ Pending(d, "write") = {}
              /\ <<calls, "upload", d>> \in log => HaloUploaded(d)

\* Three devices: every halo is on its device, and the kernels of the first
\* two are launched and have not run yet.
C6_Witness ==
    /\ status = "ok"
    /\ NumDev = 3
    /\ lhalo = 1
    /\ rhalo = 1
    /\ AllNonEmpty
    /\ pc = "launch"
    /\ di = 2
    /\ Pending(0, "kernel") # {}
    /\ Pending(1, "kernel") # {}
    /\ \A d \in 0..2 : <<calls, "upload", d>> \in log /\ HaloUploaded(d)

\* The arguments of a failed construction violate a precondition.
ArgumentsViolate == Len(queue) = 0 \/ Len(s) = 0 \/ lhalo >= Len(s)

\* C7: a construction with an empty device list, with width = 0 or with
\* center >= width ends in an assertion failure and in no other outcome: no
\* stencil is produced and no other error is raised first.
C7_ViolationsAssert ==
    /\ status = "ok" => PreconditionsHold(queue, lhalo + rhalo + 1, lhalo)
    /\ (status \notin {"none", "ok"} /\ ArgumentsViolate) => status = "assert"

\* The entries of the log about device d in call c.
LogOf(c, d) == {e \in log : e[1] = c /\ e[3] = d /\ e[2] # "finish"}

\* C8: a device d whose partition is empty is skipped entirely: no halo read
\* is issued for d, nothing is uploaded to its halo buffer, no arguments are
\* bound and no kernel is launched on it; the call completes with the
\* kernel of every other device launched and its partition computed.
C8_EmptyPartitionSkipped ==
    (status = "ok" /\ calls >= 1) =>
        \A d \in 0..(NumDev - 1) :
            IF part_size(d) = 0
            THEN /\ LogOf(calls, d) = {}
                 /\ cq[d + 1] = << >>
                 /\ \A k \in 1..Len(dbuf[d + 1]) : dbuf[d + 1][k] = Uninit
            ELSE (Completed(1) /\ AllDrained) =>
                     /\ <<1, "push_arg", d>> \in log
                     /\ <<1, "launch", d>> \in log
                     /\ PartIsGlobalResult(d, Y0(Len(x)))

\* A call with an empty partition never gets stuck: until it has returned
\* and the queues have drained, a step is possible.
CallGoesOn ==
    (status = "ok" /\ calls >= 1 /\ \E d \in 0..(NumDev - 1) : part_size(d) = 0) =>
        (pc = "idle" /\ AllDrained) \/ ENABLED Run

\* The middle device of three owns nothing; the call has completed and the
\* other two hold the result of the convolution.
C8_Witness ==
    /\ Completed(1)
    /\ AllDrained
    /\ NumDev = 3
    /\ part_size(1) = 0
    /\ part_size(0) > 0
    /\ part_size(2) > 0
    /\ lhalo = 1
    /\ rhalo = 1
    /\ LogOf(1, 1) = {}
    /\ <<1, "launch", 0>> \in log
    /\ <<1, "launch", 2>> \in log
    /\ \A d \in {0, 2} : PartIsGlobalResult(d, Y0(Len(x)))

\* C9: with one device, or with lhalo = 0 and rhalo = 0, the halo exchange
\* does nothing: no boundary read is issued, the host halo buffer and the
\* halo buffer of every device stay as they are, and no barrier is waited at.
C9_ExchangeNoop ==
    (status = "ok" /\ (NumDev = 1 \/ (lhalo = 0 /\ rhalo = 0))) =>
        /\ pc \notin {"read", "finish1", "write", "finish2"}
        /\ \A e \in log : e[2] \notin {"read", "upload", "finish"}
        /\ \A d \in 0..(NumDev - 1) :
              Pending(d, "read") = {} /\ Pending(d, "write") = {}
        /\ hbuf = [k \in 1..(NumDev * (lhalo + rhalo)) |-> 0]
        /\ dbuf = [d \in 1..NumDev |-> [k \in 1..(lhalo + rhalo + 1) |-> Uninit]]

\* A call on three devices with a stencil of one coefficient has completed.
C9_Witness ==
    /\ Completed(1)
    /\ AllDrained
    /\ NumDev = 3
    /\ lhalo = 0
    /\ rhalo = 0
    /\ AllNonEmpty
    /\ \A d \in 0..2 : <<1, "launch", d>> \in log

\* A call on one device with a stencil of three coefficients has completed.
OneDeviceNoExchange ==
    /\ Completed(1)
    /\ AllDrained
    /\ NumDev = 1
    /\ lhalo = 1
    /\ rhalo = 1
    /\ <<1, "launch", 0>> \in log

\* The strategies and the contexts of the platform.
Strategies == {"slow_conv", "fast_conv"}
Contexts == {1, 2}

\* The compilations of the kernel name for the context ctx.
Compilations(name, ctx) ==
    {k \in 1..Len(compiled) : compiled[k] = <<name, ctx>>}

\* C10: after any sequence of constructions and convolve calls each kernel
\* cache holds at most one entry per context, a kernel is compiled at most
\* once per (strategy, context), and a stencil constructed later for that
\* context uses the entry of the cache: the one from that compilation.
C10_CacheUniqueness ==
    /\ \A name \in Strategies : \A ctx \in Contexts :
          /\ Cardinality({p \in cache[name] : p[1] = ctx}) <= 1
          /\ Cardinality(Compilations(name, ctx)) <= 1
          /\ \A p \in cache[name] :
                p[1] = ctx => Compilations(name, ctx) = {p[2].serial}
    /\ status = "ok" =>
          \A d \in 1..NumDev :
              <<queue[d].ctx, conv[d]>> \in cache[conv[d].name]

\* The third stencil, on three devices of two contexts, uses the kernels the
\* first stencil compiled: nothing has been compiled since.
C10_Witness ==
    /\ status = "ok"
    /\ nstencils = 3
    /\ NumDev = 3
    /\ Len(compiled) = 2
    /\ \A d \in 1..NumDev : conv[d].serial <= 2
    /\ Completed(1)
    /\ AllDrained

\* C14: read_x returns xloc[g_id] for 0 <= g_id < n; for g_id < 0 it returns
\* xrem[lhalo + g_id] if has_left and lhalo + g_id >= 0, 0 if has_left and
\* lhalo + g_id < 0, and xloc[0] without a left neighbour; for g_id >= n it
\* returns xrem[lhalo + g_id - n] if has_right and g_id < n + rhalo, 0 if
\* has_right and g_id >= n + rhalo, and xloc[n - 1] without a right neighbour.
C14_ReadPolicy ==
    kout.kernel = "read_x" =>
        LET g == kout.g_id
            n == kin.n
            v == kout.value
        IN  /\ (0 <= g /\ g < n) => v = kin.xloc[g + 1]
            /\ (g < 0 /\ kin.has_left /\ kin.lhalo + g >= 0)
                  => v = kin.xrem[kin.lhalo + g + 1]
            /\ (g < 0 /\ kin.has_left /\ kin.lhalo + g < 0) => v = 0
            /\ (g < 0 /\ ~kin.has_left) => v = kin.xloc[1]
            /\ (g >= n /\ kin.has_right /\ g < n + kin.rhalo)
                  => v = kin.xrem[kin.lhalo + g - n + 1]
            /\ (g >= n /\ kin.has_right /\ g >= n + kin.rhalo) => v = 0
            /\ (g >= n /\ ~kin.has_right) => v = kin.xloc[n]

\* A read two elements left of a partition whose left halo has one element
\* has returned the zero fill.
C14_Witness ==
    /\ kout.kernel = "read_x"
    /\ kin.has_left
    /\ kin.lhalo = 1
    /\ kout.g_id = 0 - 2
    /\ kout.value = 0

\* A read past the right end has returned the second element of the halo.
ReadRightHalo ==
    /\ kout.kernel = "read_x"
    /\ kin.has_right
    /\ kin.lhalo = 1
    /\ kin.rhalo = 1
    /\ kout.g_id = kin.n
    /\ kout.value = kin.xrem[2]

\* The halo exchange of the call in progress has returned.
Exchanged ==
    /\ status = "ok"
    /\ calls >= 1
    /\ <<calls, "finish", 2>> \in log

\* C15: after the exchange, with w = lhalo + rhalo, every non-empty
\* partition d with a left neighbour and lhalo > 0 has
\* hbuf[d*w + k] = x[max(part_start(d) - lhalo + k, 0)] for k in [0, lhalo),
\* every non-empty d with a right neighbour and rhalo > 0 has
\* hbuf[d*w + lhalo + k] = x[min(part_start(d + 1) + k, N - 1)] for k in
\* [0, rhalo), and these w values are what dbuf[d] holds.
C15_HaloContents ==
    Exchanged =>
        LET w == lhalo + rhalo
            N == Len(x)
        IN  \A d \in 0..(NumDev - 1) :
                part_size(d) > 0 =>
                    /\ (d > 0 /\ lhalo > 0) =>
                          \A k \in 0..(lhalo - 1) :
                              hbuf[d * w + k + 1]
                                  = x[Max(part_start(d) - lhalo + k, 0) + 1]
                    /\ (d + 1 < NumDev /\ rhalo > 0) =>
                          \A k \in 0..(rhalo - 1) :
                              hbuf[d * w + lhalo + k + 1]
                                  = x[Min(part_start(d + 1) + k, N - 1) + 1]
                    /\ ((d > 0 /\ lhalo > 0) \/ (d + 1 < NumDev /\ rhalo > 0)) =>
                          \A k \in 0..(w - 1) :
                              dbuf[d + 1][k + 1] = hbuf[d * w + k + 1]

\* The right neighbour of the middle device owns one element where two were
\* asked for: the second slot repeats it.
C15_Witness ==
    /\ Exchanged
    /\ NumDev = 3
    /\ AllNonEmpty
    /\ lhalo = 0
    /\ rhalo = 2
    /\ part_size(2) = 1
    /\ hbuf[3] = x[Len(x)]
    /\ hbuf[4] = x[Len(x)]
    /\ dbuf[2][2] = x[Len(x)]

\* The slots from..(to - 1) of the host halo buffer all hold v.
SlotsHold(from, to, v) == \A k \in from..(to - 1) : hbuf[k + 1] = v

\* C16, as claimed: after the write phase the left halo slots of the first
\* partition hold its own first element and the right halo slots of the last
\* partition hold its own last element.
C16_EdgeSlotsFilled ==
    Exchanged =>
        LET w == lhalo + rhalo
            D == NumDev
        IN  /\ part_size(0) > 0 => SlotsHold(0, lhalo, x[1])
            /\ part_size(D - 1) > 0 =>
                  SlotsHold((D - 1) * w + lhalo, D * w, x[Len(x)])

\* C16, as the code has it: the left slots of device 0 and the right slots
\* of the last device are never written (read_x clamps inside the partition
\* instead); a non-empty partition d > 0 with no element to its left has its
\* left slots filled with x[0], its own first element, and a non-empty
\* partition before the last device with no element to its right has its
\* right slots filled with x[N - 1], its own last element.
C16_EdgeSlots ==
    Exchanged =>
        LET w == lhalo + rhalo
            D == NumDev
        IN  /\ SlotsHold(0, lhalo, 0)
            /\ SlotsHold((D - 1) * w + lhalo, D * w, 0)
            /\ \A d \in 1..(D - 1) :
                  (part_size(d) > 0 /\ part_start(d) = 0) =>
                      /\ x[part_start(d) + 1] = x[1]
                      /\ SlotsHold(d * w, d * w + lhalo, x[1])
            /\ \A d \in 0..(D - 2) :
                  (part_size(d) > 0 /\ part_start(d + 1) = Len(x)) =>
                      /\ x[part_start(d + 1)] = x[Len(x)]
                      /\ SlotsHold(d * w + lhalo, (d + 1) * w, x[Len(x)])

\* Device 0 owns nothing and device 1 owns the start of x: the two left
\* slots of device 1 hold x[0], those of device 0 were left alone.
C16_Witness ==
    /\ Exchanged
    /\ NumDev = 3
    /\ lhalo = 2
    /\ part_size(0) = 0
    /\ part_size(1) > 0
    /\ SlotsHold(2, 4, x[1])
    /\ SlotsHold(0, 2, 0)
    /\ dbuf[2][1] = x[1]

\* The host is in the write phase of the exchange or has started an upload.
InWritePhase ==
    /\ status = "ok"
    /\ \/ pc = "write"
       \/ \E d \in 0..(NumDev - 1) : <<calls, "upload", d>> \in log

\* What the boundary reads of device d were to bring is in the host buffer.
ReadsArrived(d) ==
    LET w == lhalo + rhalo
    IN  /\ WantsLeft(d) =>
              \A k \in 0..(LeftSize(d) - 1) :
                  hbuf[d * w + lhalo - LeftSize(d) + k + 1] = x[LeftBegin(d) + k + 1]
        /\ WantsRight(d) =>
              \A k \in 0..(RightSize(d) - 1) :
                  hbuf[d * w + lhalo + k + 1] = x[RightBegin(d) + k + 1]

\* C17: read barrier. When the host fills a halo slot or starts an upload,
\* the first barrier has returned and every boundary read of every partition
\* has completed: no read is in flight and the slots hold what was read.
C17_ReadBarrier ==
    InWritePhase =>
        /\ <<calls, "finish", 1>> \in log
        /\ \A d \in 0..(NumDev - 1) :
              /\ Pending(d, "read") = {}
              /\ part_size(d) > 0 => ReadsArrived(d)

\* The host has filled and uploaded the halo of device 0 and turns to
\* device 1; the upload is still in flight.
C17_Witness ==
    /\ status = "ok"
    /\ pc = "write"
    /\ di = 1
    /\ NumDev = 3
    /\ lhalo = 1
    /\ rhalo = 1
    /\ AllNonEmpty
    /\ <<calls, "upload", 0>> \in log
    /\ Pending(0, "write") # {}
    /\ ReadsArrived(1)

\* Some device owns nothing.
SomeEmpty == \E d \in 0..(NumDev - 1) : part_size(d) = 0

\* C18: split-invariance with empty partitions. When some devices, leading,
\* trailing or in the middle, own no element of a vector of N >= 1 elements,
\* the kernel of every non-empty partition still reads
\* x[clamp(part_start + g_id, 0, N - 1)] at every offset it sums over and y
\* is what the single-device computation produces; a side whose read returned
\* no element is filled with x[0] (left) or x[N - 1] (right) throughout.
C18_SplitInvarianceWithEmpty ==
    (status = "ok" /\ calls >= 1 /\ SomeEmpty /\ Len(x) >= 1) =>
        /\ \A d \in 0..(NumDev - 1) :
              \A cmd \in PendingKernels(d) : ReadsAreGlobal(d, cmd)
        /\ Completed(1) =>
              \A d \in 0..(NumDev - 1) :
                  part_size(d) > 0 => PartIsGlobalResult(d, Y0(Len(x)))
        /\ Exchanged =>
              \A d \in 0..(NumDev - 1) :
                  LET w == lhalo + rhalo
                  IN  part_size(d) > 0 =>
                        /\ (WantsLeft(d) /\ LeftSize(d) = 0) =>
                              SlotsHold(d * w, d * w + lhalo, x[1])
                        /\ (WantsRight(d) /\ RightSize(d) = 0) =>
                              SlotsHold(d * w + lhalo, (d + 1) * w, x[Len(x)])

\* The middle device of three owns all of x: both sides of its halo are
\* replicas, and the call has left the single-device result.
C18_Witness ==
    /\ Completed(1)
    /\ NumDev = 3
    /\ part_size(0) = 0
    /\ part_size(2) = 0
    /\ Len(x) >= 2
    /\ lhalo = 1
    /\ rhalo = 1
    /\ hbuf[3] = x[1]
    /\ hbuf[4] = x[Len(x)]
    /\ y = RefConv(s[2], lhalo, rhalo, x, Y0(Len(x)), alpha, beta)

\* C19: strategy selection. Each device has the generic kernel iff it is a
\* CPU or width > 64 and the tiled kernel otherwise; the local memory sizes
\* are 1 byte and 1 byte for the generic kernel and width and
\* workgroup_size + lhalo + rhalo elements for the tiled one; this is so from
\* the construction on, through every convolve call.
C19_StrategySelection ==
    status = "ok" =>
        LET width == Len(s[1])
        IN  \A d \in 1..NumDev :
                /\ conv[d].name \in {"slow_conv", "fast_conv"}
                /\ conv[d].name = "slow_conv" <=> (queue[d].cpu \/ width > 64)
                /\ conv[d].name = "slow_conv" =>
                      loc_s[d] = <<"bytes", 1>> /\ loc_x[d] = <<"bytes", 1>>
                /\ conv[d].name = "fast_conv" =>
                      /\ loc_s[d] = <<"elements", width>>
                      /\ loc_x[d] = <<"elements",
                                      WorkgroupSize(queue[d]) + lhalo + rhalo>>

\* A stencil of width 64 on a GPU and a CPU is tiled on the GPU and generic
\* on the CPU, also after a convolve call.
C19_Witness ==
    /\ Completed(1)
    /\ AllDrained
    /\ NumDev = 2
    /\ Len(s[1]) = 64
    /\ ~queue[1].cpu
    /\ conv[1].name = "fast_conv"
    /\ loc_s[1] = <<"elements", 64>>
    /\ queue[2].cpu
    /\ conv[2].name = "slow_conv"

\* A stencil of width 65 is generic on a GPU.
WideIsGeneric ==
    /\ Completed(1)
    /\ Len(s[1]) = 65
    /\ ~queue[1].cpu
    /\ conv[1].name = "slow_conv"
    /\ loc_x[1] = <<"bytes", 1>>

\* C13: a constructed stencil has lhalo = center, rhalo = width - center - 1,
\* both at least 0 and lhalo + rhalo + 1 = width, for the width and the
\* center the constructor got; as this holds in every state of an object,
\* during and after its convolutions too, the values never change after
\* construction.
C13_HaloInvariant ==
    status = "ok" =>
        /\ args.width >= 1
        /\ args.center >= 0
        /\ args.center < args.width
        /\ lhalo = args.center
        /\ rhalo = args.width - args.center - 1
        /\ lhalo >= 0
        /\ rhalo >= 0
        /\ lhalo + rhalo + 1 = args.width
        /\ oper = "none" => \A d \in 1..Len(s) : Len(s[d]) = args.width

\* A stencil of more than one point that has completed a convolution.
C13_Witness ==
    /\ Completed(1)
    /\ AllDrained
    /\ args.width >= 2
    /\ args.center = 1
    /\ lhalo = 1

\* The body of the operator type at the element i (0-based) of the whole
\* vector xv, its neighbours clamped to the ends of xv.
RefOper(type, xv, i) ==
    stencil_oper(type,
                 <<ClampRead(xv, i - 1), ClampRead(xv, i), ClampRead(xv, i + 1)>>,
                 2, 1, 1)

\* The pairs <<type, context>> compiled so far.
OperCompilations == {ocompiled[k] : k \in 1..Len(ocompiled)}

\* C20: the kernel cache of a StencilOperator is keyed by (operator type,
\* context). Whatever operators of the two types have been used before on
\* the same contexts, every kernel an operator launches is the one generated
\* from the body of its own type, and its completed call leaves in y what
\* that body gives; the cache of a type holds only kernels of that type, one
\* per context, and no pair of type and context is compiled twice, so the
\* instances of a type share the kernel that the first convolve on the
\* context compiled.
C20_OperatorCacheIdentity ==
    /\ \A type \in OperTypes :
          /\ \A p \in ocache[type] : p[2].impl = type /\ p[2].ctx = p[1]
          /\ \A p1, p2 \in ocache[type] : p1[1] = p2[1] => p1 = p2
          /\ {p[1] : p \in ocache[type]}
                 = {c[2] : c \in {c \in OperCompilations : c[1] = type}}
    /\ \A k1, k2 \in 1..Len(ocompiled) : ocompiled[k1] = ocompiled[k2] => k1 = k2
    /\ (status = "ok" /\ oper # "none") =>
          /\ \A d \in 0..(NumDev - 1) :
                \A cmd \in PendingKernels(d) :
                    cmd.name = "convolve" /\ cmd.impl = oper
          /\ Completed(1) =>
                \A i \in 0..(Len(x) - 1) :
                    y[i + 1] = Store(Y0(Len(x))[i + 1], alpha, beta,
                                     RefOper(oper, x, i))

\* A third operator, of the type of the first, has completed a call on the
\* context on which the first and then one of the other type were used,
\* with the kernel the first one compiled.
C20_Witness ==
    /\ Completed(1)
    /\ AllDrained
    /\ nstencils = 3
    /\ oper = "pow3"
    /\ ocompiled = <<(<<"pow3", 1>>), (<<"diff", 1>>)>>
    /\ \E i \in 0..(Len(x) - 1) : RefOper("pow3", x, i) # RefOper("diff", x, i)

\* Every device of the stencil at hand has its kernel in the cache of its
\* strategy.
StencilKernelsCached ==
    \A d \in 1..NumDev :
        \E p \in cache[conv[d].name] : p[1] = queue[d].ctx /\ p[2] = conv[d]

\* Every context of the operator at hand has a kernel in the cache of the
\* operator's type.
OperKernelsCached ==
    \A d \in 1..NumDev : \E p \in ocache[oper] : p[1] = queue[d].ctx

\* What a step may do to the kernel caches: no entry is removed; the caches
\* of stencil<T> change only in the construction of a stencil; the cache of
\* an operator type changes only in a convolve call of an operator of that
\* type, by the entry of the context of the device the call is at.
KernelEntriesStep ==
    /\ \A name \in DOMAIN cache : cache[name] \subseteq cache'[name]
    /\ \A type \in OperTypes : ocache[type] \subseteq ocache'[type]
    /\ cache' # cache => (nstencils' = nstencils + 1 /\ oper' = "none")
    /\ compiled' # compiled => cache' # cache
    /\ ocache' # ocache =>
          /\ pc = "launch"
          /\ calls >= 1
          /\ oper \in OperTypes
          /\ \A type \in OperTypes \ {oper} : ocache'[type] = ocache[type]
          /\ \A p \in ocache'[oper] \ ocache[oper] : p[1] = queue[di + 1].ctx
          /\ \A p \in ocache[oper] : p[1] # queue[di + 1].ctx
    /\ ocompiled' # ocompiled => ocache' # ocache

\* C11 as the specification states it: kernel entries are created by the
\* first convolve call that touches a context, so as long as the only
\* object of the process has not been used in a convolve call nothing has
\* been compiled and the caches are empty.
C11_LazyKernelCreation ==
    (nstencils <= 1 /\ calls = 0) =>
        /\ compiled = << >>
        /\ ocompiled = << >>
        /\ \A name \in DOMAIN cache : cache[name] = {}
        /\ \A type \in OperTypes : ocache[type] = {}

\* C11: the kernel entries of a stencil are created by its constructor:
\* from construction on, before any convolve call, every device of the
\* stencil has its kernel in the cache, and a convolve call of a stencil
\* compiles nothing. The kernel entries of a user-defined operator are
\* created lazily: constructing the operator compiles nothing, and its
\* convolve call creates the entry of a context when it first comes to a
\* device of that context, whether or not the partition of the device is
\* empty, so that a returned call has an entry for every context. No entry
\* is ever removed.
C11_KernelCreation ==
    /\ []((status = "ok" /\ oper = "none") => StencilKernelsCached)
    /\ []((status = "ok" /\ oper # "none" /\ calls >= 1 /\ pc = "idle")
              => OperKernelsCached)
    /\ []((nstencils <= 1 /\ oper # "none" /\ calls = 0) => ocompiled = << >>)
    /\ [][KernelEntriesStep]_vars

\* A stencil was constructed, which compiled kernels, and then an operator,
\* whose call on two contexts, the partition of one device empty, has
\* returned and has compiled a kernel for each context.
C11_Witness ==
    /\ Completed(1)
    /\ AllDrained
    /\ nstencils = 2
    /\ oper # "none"
    /\ compiled # << >>
    /\ NumDev = 2
    /\ \E d \in 0..(NumDev - 1) : part_size(d) = 0
    /\ Len(ocompiled) = 2

\* What the assignment op of c times the value v leaves of y0.
Shorthand(op, y0, c, v) ==
    IF op = "=" THEN Mul(c, v)
    ELSE IF op = "+=" THEN Add(y0, Mul(c, v))
    ELSE Add(y0, Mul(0 - 1, Mul(c, v)))

\* The partition of device d holds what the assignment gives, conv(x) being
\* the sum over the coefficients the kernel finds or the operator's body.
PartIsAssigned(d) ==
    IF oper = "none"
    THEN \E S \in Views(d) :
            \A i \in part_start(d)..(part_start(d + 1) - 1) :
                y[i + 1] = Shorthand(expr.op, Y0(Len(x))[i + 1], expr.scale,
                                     RefSumOver(0 - lhalo, i, S, lhalo, rhalo, x))
    ELSE \A i \in part_start(d)..(part_start(d + 1) - 1) :
            y[i + 1] = Shorthand(expr.op, Y0(Len(x))[i + 1], expr.scale,
                                 RefOper(oper, x, i))

\* C12: the product of a vector and a stencil in either order, or a user
\* operator applied to the vector, with the scale c, applies as
\* convolve(x, y, alpha, beta) with alpha = 0 on assignment and 1 on append,
\* beta = c when not negated and -c when negated: y = x * s overwrites y
\* with c * conv(x), y += x * s adds c * conv(x) to y and y -= x * s
\* subtracts it, whatever the order of the operands.
C12_MultiplyShorthand ==
    (status = "ok" /\ expr # NoExpr) =>
        /\ alpha = (IF expr.op = "=" THEN 0 ELSE 1)
        /\ beta = (IF expr.op = "-=" THEN 0 - expr.scale ELSE expr.scale)
        /\ Completed(1) => \A d \in 0..(NumDev - 1) : PartIsAssigned(d)

\* y -= 2 * (s * x) has completed on two devices and changed y.
C12_Witness ==
    /\ Completed(1)
    /\ AllDrained
    /\ expr # NoExpr
    /\ expr.op = "-="
    /\ expr.form = "s*x"
    /\ expr.scale = 2
    /\ NumDev = 2
    /\ y # Y0(Len(x))

\* Every work item of the group has left the kernel.
AllDone == Items # {} /\ \A l \in Items : wi[l].pc = "done"

\* The kernel followed is one of the two that stage a tile.
Tiled == kern \in {"fast_conv", "convolve"}

\* The slots of the tile.
TileSlots == 0..(kin.bs + kin.lhalo + kin.rhalo - 1)

\* group_base of the iteration the work item l is in.
GroupBase(l) == wi[l].g_id - l

\* Slot i holds what the iteration at pos wrote: read_x(base - lhalo + i),
\* written once, by the work item i % block_size.
SlotIsOf(i, pos, base) ==
    /\ i \in DOMAIN X_tile
    /\ X_tile[i].pos = pos
    /\ X_tile[i].arg = base - kin.lhalo + i
    /\ X_tile[i].val = read_x(base - kin.lhalo + i, kin.n, kin.has_left,
                              kin.has_right, kin.lhalo, kin.rhalo,
                              kin.xloc, kin.xrem)
    /\ {w[3] : w \in {w \in writes : w[1] = pos /\ w[2] = i}} = {i % kin.bs}

\* C21: tile synchronisation of the tiled kernels. In every iteration no
\* slot of X is written by two work items, and while a work item is at its
\* sum every one of the block_size + lhalo + rhalo slots holds
\* read_x(group_base - lhalo + i) as one work item wrote it in this very
\* iteration: none is still unwritten or left from the iteration before, and
\* none is already overwritten for the next one, whatever the order in which
\* the work items run.
C21_TileSynchronisation ==
    Tiled =>
        /\ \A w1, w2 \in writes :
              (w1[1] = w2[1] /\ w1[2] = w2[2]) => w1[3] = w2[3]
        /\ \A l \in Items :
              wi[l].pc = "compute" =>
                  \A i \in TileSlots : SlotIsOf(i, wi[l].pos, GroupBase(l))

\* In the second iteration of fast_conv one work item is at its sum while
\* the other has done its own and waits at the second barrier.
C21_Witness ==
    /\ kern = "fast_conv"
    /\ kin.bs = 2
    /\ kin.lhalo > 0
    /\ kin.rhalo > 0
    /\ wi[0].pc = "compute"
    /\ wi[0].pos > 0
    /\ wi[1].pc = "barrier2"

\* C22: coefficient staging of fast_conv. No work item reads S before the
\* group's copy of all lhalo + rhalo + 1 coefficients from s into S has
\* completed: while a work item is at its sum, the copy is complete.
C22_CoefficientsStaged ==
    \A l \in Items :
        (kern = "fast_conv" /\ wi[l].pc = "compute" /\ wi[l].g_id < kin.n) =>
            /\ ncopied = kin.lhalo + kin.rhalo + 1
            /\ S_shared = kin.s

\* The indices of y the work items of the group visit.
GroupIndices ==
    {g \in 0..(kin.n - 1) : ((g % kin.gs) \div kin.bs) = grp}

\* The work items leave in y what the kernels as functions of their
\* arguments give: the generic and the operator kernel their one result,
\* fast_conv at every index the result for some arrival of S.
GroupAgreesWithKernel ==
    AllDone =>
        \A g \in GroupIndices :
            IF kern = "slow_conv" THEN yw[g + 1] = SlowOn(kin.y)[g + 1]
            ELSE IF kern = "convolve" THEN yw[g + 1] = OperOn(kin.y)[g + 1]
            ELSE \E V \in StagedViews(kin.s) : yw[g + 1] = FastOn(kin.y, V)[g + 1]

\* The iterations of the outer loop: pos = 0, grid_size, ... below n.
Iterations == (kin.n + kin.gs - 1) \div kin.gs

\* The work item waits at a barrier.
AtBarrier(l) == wi[l].pc \in {"barrier1", "barrier2"}

\* The work items of the group are in step: those that wait, wait at the
\* same barrier of the same iteration; none waits while another has left
\* the kernel; all have passed the same number of barriers, and two for
\* every iteration once they have left.
InStep ==
    /\ \A l1, l2 \in Items :
          /\ (AtBarrier(l1) /\ AtBarrier(l2)) =>
                (wi[l1].pc = wi[l2].pc /\ wi[l1].pos = wi[l2].pos)
          /\ ~(AtBarrier(l1) /\ wi[l2].pc = "done")
          /\ wi[l1].bar = wi[l2].bar
    /\ \A l \in Items : wi[l].pc = "done" => wi[l].bar = 2 * Iterations

\* C23: barrier uniformity and termination of the tiled kernels. For every
\* n, grid size and work-group size all work items of a group make the same
\* number of iterations of the outer loop and reach each barrier the same
\* number of times, those with g_id >= n and the groups beyond n included;
\* no work item waits at a barrier for one that has left, and every work
\* item leaves the kernel in the end.
C23_BarrierUniformity ==
    /\ [](Tiled => InStep)
    /\ (Tiled => <>AllDone)

\* A group of two work items that lies beyond n has left the kernel after
\* two barriers for every iteration.
C23_Witness ==
    /\ Tiled
    /\ AllDone
    /\ kin.bs = 2
    /\ grp * kin.bs >= kin.n
    /\ \A l \in Items : wi[l].bar = 2 * Iterations /\ wi[l].bar >= 2

\* The elements of the buffer a kernel knows by the name buf: xloc and y
\* are the partition, xrem is dbuf[d] of which lhalo + rhalo elements are
\* halo, s and S hold the coefficients, X is the local memory behind loc_x.
ElementsOf(buf) ==
    IF buf \in {"xloc", "y"} THEN Min(kin.n, Min(Len(kin.xloc), Len(yw)))
    ELSE IF buf = "xrem" THEN Min(kin.lhalo + kin.rhalo, Len(kin.xrem))
    ELSE IF buf = "s" THEN Len(kin.s)
    ELSE IF buf = "S" THEN Len(S_shared)
    ELSE Min(kin.bs + kin.lhalo + kin.rhalo, Cardinality(DOMAIN X_tile))

\* C24: every access of a kernel stays inside its buffer, for the generic
\* kernel, fast_conv and the operator kernel: the indices of xloc and y are
\* in [0, n), those of xrem in [0, lhalo + rhalo), those of s and S in
\* [0, width), and those of X in [0, block_size + lhalo + rhalo), which is
\* within the local memory allocated for the tile.
C24_InBounds ==
    /\ \A a \in touched :
          a[1] # "zero" => (a[2] >= 0 /\ a[2] < ElementsOf(a[1]))
    /\ kern # "none" =>
          /\ kin.lhalo + kin.rhalo + 1 = Len(kin.s)
          /\ StageBound(kin.bs, kin.lhalo, kin.rhalo) <= Cardinality(DOMAIN X_tile)

\* fast_conv has run to its end on a partition with both neighbours and has
\* read the first and the last halo element and written the last tile slot.
C24_Witness ==
    /\ kern = "fast_conv"
    /\ AllDone
    /\ kin.has_left
    /\ kin.has_right
    /\ kin.lhalo > 0
    /\ kin.rhalo > 0
    /\ {<<"xrem", 0>>, <<"xrem", kin.lhalo + kin.rhalo - 1>>,
        <<"X", kin.bs + kin.lhalo + kin.rhalo - 1>>,
        <<"xloc", kin.n - 1>>, <<"y", kin.n - 1>>} \subseteq touched

(***************************************************************************)
(* What a kernel reads through read_x.                                     *)
(***************************************************************************)
\* The global ids of the first work items of the groups, over the
\* iterations pos = 0, gs, 2 gs, ... < n of the tiled kernels.
GroupBases(cmd) ==
    {b \in 0..(cmd.n + cmd.gs - 1) : b % cmd.bs = 0 /\ b - (b % cmd.gs) < cmd.n}

\* The arguments g_id of the calls of read_x whose value goes into a sum
\* stored to y.
Contributing(cmd) ==
    {idx + j : idx \in GridStride(cmd.n, cmd.gs), j \in (0 - cmd.lhalo)..cmd.rhalo}

\* The arguments g_id of all calls of read_x the kernel makes: those of the
\* sums for slow_conv, those of the staging loops for the tiled kernels.
ReadArguments(cmd) ==
    IF cmd.name = "slow_conv"
    THEN Contributing(cmd)
    ELSE {b - cmd.lhalo + i : b \in GroupBases(cmd),
                              i \in 0..(StageBound(cmd.bs, cmd.lhalo, cmd.rhalo) - 1)}

AccessOf(cmd, g) ==
    read_x_at(g, cmd.n, cmd.has_left, cmd.has_right, cmd.lhalo, cmd.rhalo)

\* The elements of xrem the kernel reads.
HaloReads(cmd) ==
    {AccessOf(cmd, g)[2] : g \in {g \in ReadArguments(cmd) : AccessOf(cmd, g)[1] = "xrem"}}

\* C25: no stale halo reads. Every element of xrem that a kernel enqueued
\* on device d reads was written by the upload of the convolve call that
\* enqueued the kernel, from an element of hbuf read or filled in that same
\* call, whatever calls came before; and no read_x whose value goes into
\* an output y[i] takes a zero-fill branch.
C25_NoStaleHaloReads ==
    status = "ok" =>
    \A d \in 0..(NumDev - 1) : \A cmd \in PendingKernels(d) :
        /\ \A k \in HaloReads(cmd) :
              /\ k + 1 \in DOMAIN dfill[d + 1]
              /\ dfill[d + 1][k + 1] = cmd.call
        /\ \A g \in Contributing(cmd) : AccessOf(cmd, g)[1] # "zero"

\* A kernel of the second call is about to read halo elements on a device
\* whose halo buffer the first call has uploaded for another partitioning,
\* and stages a zero besides.
C25_Witness ==
    /\ status = "ok"
    /\ calls = 2
    /\ \E d \in 0..(NumDev - 1) : \E cmd \in PendingKernels(d) :
          /\ cmd.call = 2
          /\ HaloReads(cmd) # {}
          /\ \E k \in HaloReads(cmd) : dfill[d + 1][k + 1] = 2
          /\ <<1, "launch", d>> \in log
          /\ x = OtherX(Squares(Len(x)))
          /\ \E g \in ReadArguments(cmd) : AccessOf(cmd, g)[1] = "zero"

====
